---- MODULE Spec2Model ----
(***************************************************************************)
(* Model of the extraction-and-comparison pipeline:                         *)
(*   scripts/extractor.py   plist documents -> intermediate record          *)
(*   scripts/comparator.py  two intermediate records -> TP/FP/FN summary    *)
(*                                                                          *)
(* Python values are represented as follows.                                *)
(*   - an insertion-ordered dict is a sequence of <<key, value>> pairs      *)
(*     with distinct keys; dict equality (order-insensitive) is equality    *)
(*     of AsMapping;                                                        *)
(*   - an optional integer is <<>> (None) or <<n>>;                         *)
(*   - an optional string field of a diagnostic is "" when absent: every    *)
(*     read of such a field in the source goes through `x or ...`, which    *)
(*     treats None and "" alike;                                            *)
(*   - an opaque metadata mapping is the set of its keys, {} when empty;    *)
(*   - a dict whose insertion order nothing reads (by_checker, cmp_map, a   *)
(*     directory) is a function on its keys;                                *)
(*   - a clock reading is a second t with now <= t <= MaxClock; the reads   *)
(*     of one step fall into the same second;                               *)
(*   - a path handed to make_relative_path is the sequence of its           *)
(*     characters, and os.path is posixpath;                                *)
(*   - a timestamp of a timing mapping is None, Num(n) or Txt(s);           *)
(*   - a JSON value read from a metadata file is None, Num(n), Txt(s),      *)
(*     JDict(pairs) or JList(items);                                        *)
(*   - a path of the report directory's tree is the sequence of its         *)
(*     names.                                                               *)
(*                                                                          *)
(* The specifications share the variables: SpecMerge (merge_reports on a    *)
(* reports list), SpecExtract (the extractor's main around                  *)
(* generate_intermediate), SpecCompare (summarize_project and               *)
(* write_csv_summary on a pair of records), SpecMain (the comparator's      *)
(* main), SpecPipeline (one run of either tool), SpecPath                   *)
(* (make_relative_path on a raw path, a project root and a working          *)
(* directory), SpecPlist (extract_plist on one document), SpecInterp (the   *)
(* reading of one timing candidate), SpecTiming                             *)
(* (extract_metadata_from_report_dir on a tree of directories) and          *)
(* SpecTasks (the steps of two projects interleaved).                       *)
(***************************************************************************)
EXTENDS Integers, Sequences, FiniteSets, TLC

\* ------------------------------------------------------------------ bounds
\* diagnostics per plist document read by generate_intermediate
MaxDiags == 1

\* plist documents found under the reports path
MaxDocs == 2

\* diagnostics per document, and documents, handed to merge_reports
MaxMergeDiags == 2

MaxMergeDocs == 2

\* diagnostics behind one intermediate record handed to summarize_project
MaxEntries == 2

\* json files found under --groundtruth and under --compare
MaxGtFiles == 2

MaxCmpFiles == 2

\* the last second of the wall clock
MaxClock == 2

\* pieces a raw path handed to make_relative_path is put together from
MaxPathTokens == 4

\* diagnostics of the document handed to extract_plist alone
MaxPlistDiags == 2

\* mappings and lists a timing payload is wrapped in
MaxNesting == 1

\* directory levels below the report directory
MaxWalkDepth == 4

\* metadata files in and around the report directory
MaxMetaFiles == 3

\* ------------------------------------------------------------ Python values
None == <<>>

Some(x) == <<x>>

Range(s) == {s[i] : i \in DOMAIN s}

RECURSIVE SeqsUpTo(_, _)
\* all sequences over S of length at most n
SeqsUpTo(S, n) ==
  IF n = 0 THEN {<<>>}
  ELSE LET shorter == SeqsUpTo(S, n - 1)
       IN  shorter \cup {Append(s, x) : s \in {t \in shorter : Len(t) = n - 1}, x \in S}

\* all orders in which a finite set can be iterated
Orderings(S) ==
  {s \in SeqsUpTo(S, Cardinality(S)) : Len(s) = Cardinality(S) /\ Range(s) = S}

DictKeys(d) == {d[i][1] : i \in DOMAIN d}

DictIndex(d, k) == CHOOSE i \in DOMAIN d : d[i][1] = k

\* d.get(k, []) for a dict of lists
DictGet(d, k) == IF k \in DictKeys(d) THEN d[DictIndex(d, k)][2] ELSE <<>>

\* d.setdefault(k, []).append(e)
SetDefaultAppend(d, k, e) ==
  IF k \in DictKeys(d)
  THEN [d EXCEPT ![DictIndex(d, k)] = <<k, Append(@[2], e)>>]
  ELSE Append(d, <<k, <<e>>>>)

\* the mapping a dict denotes, insertion order forgotten (Python dict ==)
AsMapping(d) == [k \in DictKeys(d) |-> DictGet(d, k)]

\* ------------------------------------------------------- plist documents
\* the `files` array of every document of the model
DocFiles == <<"f.c", "g.c">>

\* `path` is "" when absent or when it is a list (the source resets a list to
\* None, and reads it only when file_path is falsy)
Diag(cn, cat, desc, msg, line, file, fpath) ==
  [check_name |-> cn, category |-> cat, description |-> desc, message |-> msg,
   line |-> line, file |-> file, file_path |-> fpath, path |-> ""]

\* (f.c, checkerA, 10, leak)
DiagLeak == Diag("checkerA", "", "leak", "", Some(10), Some(0), "")

\* (f.c, checkerB, 20, unused)
DiagUnused == Diag("checkerB", "", "unused", "", Some(20), Some(0), "")

\* (f.c, checkerA, 11, leak): checker and message from the secondary fields
DiagLine == Diag("", "checkerA", "", "leak", Some(11), Some(0), "")

\* (g.c, checkerA, 10, leak)
DiagFile == Diag("checkerA", "", "leak", "", Some(10), Some(1), "")

\* (f.c, checkerB, 10, leak): no file index, direct path field
DiagChecker == Diag("checkerB", "", "leak", "", Some(10), None, "f.c")

\* (f.c, checkerA, 10, ""): no message at all
DiagMessage == Diag("checkerA", "", "", "", Some(10), Some(0), "")

\* the diagnostics behind the records the comparator is given
Diags == {DiagLeak, DiagUnused, DiagLine, DiagFile, DiagChecker, DiagMessage}

\* the diagnostics of the documents handed to merge_reports
MergeDiags == {DiagLeak, DiagLine, DiagFile}

\* the diagnostics of the documents generate_intermediate reads
ExtractDiags == {DiagLeak, DiagFile}

EmptyMeta == {}

Metas == {EmptyMeta, {"analyzer"}, {"version"}}

\* a document that plistlib cannot load has readable = FALSE
Doc(ok, diags, meta) ==
  [readable |-> ok, files |-> DocFiles, diagnostics |-> diags, metadata |-> meta]

\* ---------------------------------------------------------- extract_plist
Or(a, b) == IF a # "" THEN a ELSE b

\* mutant: a diagnostic without a valid file index goes under "<unknown>"
ExtractDiag_IndexOnly(files, diag) ==
  LET fi == diag.file
      indexed == IF fi # None /\ 0 <= fi[1] /\ fi[1] < Len(files)
                 THEN files[fi[1] + 1] ELSE ""
  IN  <<IF indexed # "" THEN indexed ELSE "<unknown>",
        [checker |-> Or(diag.check_name, Or(diag.category, "")),
         message |-> Or(diag.description, Or(diag.message, "")), line |-> diag.line]>>

\* the finding one diagnostic yields: <<file_path, entry>>
ExtractDiag(files, diag) ==
  LET checker == Or(diag.check_name, Or(diag.category, ""))
      message == Or(diag.description, Or(diag.message, ""))
      fi == diag.file
      indexed == IF fi # None /\ 0 <= fi[1] /\ fi[1] < Len(files)
                 THEN files[fi[1] + 1] ELSE ""
      direct == IF indexed # "" THEN indexed ELSE Or(diag.file_path, diag.path)
      file_path == IF direct # "" THEN direct ELSE "<unknown>"
  IN  <<file_path, [checker |-> checker, message |-> message, line |-> diag.line]>>

RECURSIVE ExtractLoop(_, _, _)
ExtractLoop(files, diagnostics, reports) ==
  IF diagnostics = <<>> THEN reports
  ELSE LET fe == ExtractDiag(files, Head(diagnostics))
       IN  ExtractLoop(files, Tail(diagnostics), SetDefaultAppend(reports, fe[1], fe[2]))

\* mutant: the failure of plistlib.load is not noticed
extract_plist_NoHandler(doc) ==
  <<ExtractLoop(doc.files, doc.diagnostics, <<>>), doc.metadata>>

\* returns <<reports_by_file, plist_metadata>>
extract_plist(doc) ==
  IF ~doc.readable THEN <<(<<>>), EmptyMeta>>
  ELSE <<ExtractLoop(doc.files, doc.diagnostics, <<>>), doc.metadata>>

\* ---------------------------------------------------------- merge_reports
\* mutant: the line is no part of the merger's key
Key_NoLine(file_path, e) == <<file_path, e.checker, None, e.message>>

Key(file_path, e) == <<file_path, e.checker, e.line, e.message>>

RECURSIVE MergeEntries_NoSeen(_, _, _)
\* mutant: the entries loop without the `if key in seen: continue` test
MergeEntries_NoSeen(file_path, entries, acc) ==
  IF entries = <<>> THEN acc
  ELSE LET e == Head(entries)
       IN  MergeEntries_NoSeen(file_path, Tail(entries),
             [merged |-> SetDefaultAppend(acc.merged, file_path,
                           [checker |-> e.checker, message |-> e.message, line |-> e.line]),
              seen |-> acc.seen \cup {Key(file_path, e)}])

RECURSIVE MergeEntries(_, _, _)
\* the loop over the entries of one file; acc = [merged, seen]
MergeEntries(file_path, entries, acc) ==
  IF entries = <<>> THEN acc
  ELSE LET e == Head(entries)
           key == Key(file_path, e)
       IN  IF key \in acc.seen
           THEN MergeEntries(file_path, Tail(entries), acc)
           ELSE MergeEntries(file_path, Tail(entries),
                  [merged |-> SetDefaultAppend(acc.merged, file_path,
                                [checker |-> e.checker, message |-> e.message, line |-> e.line]),
                   seen |-> acc.seen \cup {key}])

RECURSIVE MergeFiles(_, _)
\* the loop over reports.items() of one document
MergeFiles(reports, acc) ==
  IF reports = <<>> THEN acc
  ELSE MergeFiles(Tail(reports), MergeEntries(Head(reports)[1], Head(reports)[2], acc))

RECURSIVE MergeDocs_SeenPerDoc(_, _)
\* mutant: `seen` is emptied at the start of every document
MergeDocs_SeenPerDoc(reports_list, acc) ==
  IF reports_list = <<>> THEN acc
  ELSE MergeDocs_SeenPerDoc(Tail(reports_list),
         MergeFiles(Head(reports_list), [acc EXCEPT !.seen = {}]))

RECURSIVE MergeDocs_Reversed(_, _)
\* mutant: the documents are iterated last to first
MergeDocs_Reversed(reports_list, acc) ==
  IF reports_list = <<>> THEN acc
  ELSE MergeFiles(Head(reports_list), MergeDocs_Reversed(Tail(reports_list), acc))

RECURSIVE MergeDocs(_, _)
\* the loop over all_reports
MergeDocs(reports_list, acc) ==
  IF reports_list = <<>> THEN acc
  ELSE MergeDocs(Tail(reports_list), MergeFiles(Head(reports_list), acc))

merge_reports(reports_list) == MergeDocs(reports_list, [merged |-> <<>>, seen |-> {}]).merged

\* --------------------------------------------------- intermediate records
\* timing metadata as extract_metadata_from_report_dir returns it: <<>> is the
\* empty dict, <<t>> a dict t of timing fields
NoTiming == <<>>

\* a JSON value read as a timestamp: None, a number, or a text, which is a
\* rendered time or empty (None)
Num(n) == <<"num", n>>

Txt(s) == <<"str", s>>

Timings ==
  {NoTiming,
   Some([start_timestamp |-> Num(11), end_timestamp |-> Num(12), elapsed_seconds |-> Num(1)])}

\* further results of extract_metadata_from_report_dir: an elapsed time
\* alone, a start without an end, a zero start without an end, an end given
\* as text
SparseTimings ==
  {Some([elapsed_seconds |-> Num(1)]),
   Some([start_timestamp |-> Num(11), end_timestamp |-> None, elapsed_seconds |-> Num(1)]),
   Some([start_timestamp |-> Num(0), end_timestamp |-> None, elapsed_seconds |-> Num(1)]),
   Some([start_timestamp |-> None, end_timestamp |-> Txt(<<"iso", 13>>), elapsed_seconds |-> Num(1)])}

Payload(project, files, extracted_at, source_plists, plist_meta, timing) ==
  [project |-> project, files |-> files,
   metadata |-> [extracted_at |-> extracted_at, source_plists |-> source_plists,
                 plist_metadata |-> plist_meta, timing |-> timing]]

\* mutant: the name does not hold the project
FileName_Shared(project, ts) == <<"out", ts>>

\* a file name of the output directory: <project>.json when ts = None,
\* <project>.<ts>.json otherwise
FileName(project, ts) == <<project, ts>>

\* the directory after open(name, "w") and json.dump(content)
WriteFile(dir, name, content) ==
  [n \in DOMAIN dir \cup {name} |-> IF n = name THEN content ELSE dir[n]]

EmptyDir == [n \in {} |-> {}]

\* the name of the directory holding the reports
ReportDirName == "reports"

ProjectNames == {"", "p1"}

\* "" stands for an absent --project-root
ProjectRoots == {"", "/src/proj"}

\* a record left in the output directory by an earlier run
OldPayload == Payload("p1", <<>>, 0, 1, EmptyMeta, NoTiming)

\* mutant: every non-empty metadata replaces the kept one
KeepMetadata_LastWins(kept, m) == IF m # EmptyMeta THEN m ELSE kept

\* `if not plist_metadata and m: plist_metadata = m`
KeepMetadata(kept, m) == IF kept = EmptyMeta /\ m # EmptyMeta THEN m ELSE kept

\* ------------------------------------------------------------------- paths
\* A path is the sequence of its characters. os.path is posixpath: "/" is
\* the only separator and a backslash is an ordinary character of a name.
\* An absolute normalised path is held as the sequence of its components.
DotDot == <<".", ".">>

RECURSIVE split(_)
\* s.split("/"): the pieces between separators, empty ones included
split(s) ==
  IF \A i \in DOMAIN s : s[i] # "/" THEN <<s>>
  ELSE LET i == CHOOSE k \in DOMAIN s : s[k] = "/" /\ \A j \in 1..(k - 1) : s[j] # "/"
       IN  <<SubSeq(s, 1, i - 1)>> \o split(SubSeq(s, i + 1, Len(s)))

RECURSIVE normpath(_, _)
\* the loop of posixpath.normpath over the components of an absolute path:
\* empty and "." components are dropped, ".." pops, and is dropped at "/"
normpath(comps, new_comps) ==
  IF comps = <<>> THEN new_comps
  ELSE LET comp == Head(comps)
           kept == IF comp = <<>> \/ comp = <<".">> THEN new_comps
                   ELSE IF comp # DotDot THEN Append(new_comps, comp)
                   ELSE IF new_comps # <<>> THEN SubSeq(new_comps, 1, Len(new_comps) - 1)
                   ELSE new_comps
       IN  normpath(Tail(comps), kept)

\* os.path.abspath(path) in the working directory cwd; os.getcwd() raises
\* FileNotFoundError when the working directory has been removed (cwd = None)
abspath(path, cwd) ==
  IF path # <<>> /\ path[1] = "/"
  THEN [raised |-> "", comps |-> normpath(split(path), <<>>)]
  ELSE IF cwd = None
  THEN [raised |-> "FileNotFoundError", comps |-> <<>>]
  ELSE [raised |-> "", comps |-> normpath(split(cwd[1]) \o split(path), <<>>)]

RECURSIVE CommonPrefixLen(_, _)
\* len(commonprefix([start_list, path_list]))
CommonPrefixLen(a, b) ==
  IF a = <<>> \/ b = <<>> THEN 0
  ELSE IF Head(a) # Head(b) THEN 0
  ELSE 1 + CommonPrefixLen(Tail(a), Tail(b))

RECURSIVE JoinComps(_)
\* "/".join(comps)
JoinComps(comps) ==
  IF comps = <<>> THEN <<>>
  ELSE IF Len(comps) = 1 THEN comps[1]
  ELSE comps[1] \o <<"/">> \o JoinComps(Tail(comps))

\* os.path.relpath of one absolute path to another, both as components
relpath(path_list, start_list) ==
  LET i == CommonPrefixLen(start_list, path_list)
      rel_list == [k \in 1..(Len(start_list) - i) |-> DotDot]
                    \o SubSeq(path_list, i + 1, Len(path_list))
  IN  IF rel_list = <<>> THEN <<".">> ELSE JoinComps(rel_list)

startswith(s, prefix) ==
  Len(s) >= Len(prefix) /\ SubSeq(s, 1, Len(prefix)) = prefix

isabs(s) == startswith(s, <<"/">>)

\* s.replace('\\', '/')
replace(s) == [i \in DOMAIN s |-> IF s[i] = "\\" THEN "/" ELSE s[i]]

\* os.path.basename of an absolute normalised path: "" for "/"
BaseName(comps) == IF comps = <<>> THEN <<>> ELSE comps[Len(comps)]

\* mutant: the leftmost occurrence
rfind_Leftmost(s, sub) ==
  LET hits == {i \in 0..(Len(s) - Len(sub)) : SubSeq(s, i + 1, i + Len(sub)) = sub}
  IN  IF hits = {} THEN -1 ELSE CHOOSE i \in hits : \A j \in hits : i <= j

\* s.rfind(sub): the 0-based index of the rightmost occurrence, -1 if none
rfind(s, sub) ==
  LET hits == {i \in 0..(Len(s) - Len(sub)) : SubSeq(s, i + 1, i + Len(sub)) = sub}
  IN  IF hits = {} THEN -1 ELSE CHOOSE i \in hits : \A j \in hits : j <= i

RECURSIVE lstrip(_)
\* s.lstrip('/\\')
lstrip(s) ==
  IF s = <<>> THEN s
  ELSE IF s[1] \in {"/", "\\"} THEN lstrip(Tail(s))
  ELSE s

\* the outcome of a block of statements: it returned value, it fell off its
\* end, or it raised the exception exc
Returned(value) == [outcome |-> "return", value |-> value, exc |-> ""]

FellThrough == [outcome |-> "fall", value |-> <<>>, exc |-> ""]

Raised(exc) == [outcome |-> "raise", value |-> <<>>, exc |-> exc]

\* mutant: a block without a handler
TryExcept_NoHandler(block) == block

\* try: <block> / except Exception: pass
TryExcept(block) == IF block.outcome = "raise" THEN FellThrough ELSE block

\* `not rel.startswith('..') and not os.path.isabs(rel)`
AcceptRel(rel) == ~startswith(rel, DotDot) /\ ~isabs(rel)

\* make_relative_path, first try block
Strategy1(abs_path, root, cwd) ==
  LET abs_p == abspath(abs_path, cwd)
      abs_root == abspath(root, cwd)
  IN  IF abs_p.raised # "" THEN Raised(abs_p.raised)
      ELSE IF abs_root.raised # "" THEN Raised(abs_root.raised)
      ELSE LET rel == relpath(abs_p.comps, abs_root.comps)
           IN  IF AcceptRel(rel) THEN Returned(replace(rel)) ELSE FellThrough

\* make_relative_path, second try block
Strategy2(abs_path, root, cwd) ==
  LET abs_root == abspath(root, cwd)
  IN  IF abs_root.raised # "" THEN Raised(abs_root.raised)
      ELSE LET root_name == BaseName(abs_root.comps)
               idx == rfind(abs_path, root_name)
               candidate == lstrip(SubSeq(abs_path, idx + Len(root_name) + 1, Len(abs_path)))
           IN  IF idx # -1 /\ candidate # <<>> THEN Returned(replace(candidate))
               ELSE FellThrough

\* make_relative_path(abs_path, project_root) run in the working directory
\* cwd: the path returned, the return statement that returned it (0 for the
\* one taken without a project root) and the exception propagated, if any
make_relative_path(abs_path, root, cwd) ==
  IF root = <<>> THEN [path |-> replace(abs_path), via |-> 0, raised |-> ""]
  ELSE LET s1 == TryExcept(Strategy1(abs_path, root, cwd))
           s2 == TryExcept(Strategy2(abs_path, root, cwd))
       IN  IF s1.outcome = "raise" THEN [path |-> None, via |-> 1, raised |-> s1.exc]
           ELSE IF s1.outcome = "return" THEN [path |-> s1.value, via |-> 1, raised |-> ""]
           ELSE IF s2.outcome = "raise" THEN [path |-> None, via |-> 2, raised |-> s2.exc]
           ELSE IF s2.outcome = "return" THEN [path |-> s2.value, via |-> 2, raised |-> ""]
           ELSE [path |-> replace(abs_path), via |-> 3, raised |-> ""]

\* ---------------------------------------- extract_metadata_from_report_dir
\* JSON values: None, Num(n), Txt(s), a mapping (its pairs in file order) and
\* a list
JDict(pairs) == <<"dict", pairs>>

JList(items) == <<"list", items>>

IsDict(v) == v # None /\ v[1] = "dict"

IsList(v) == v # None /\ v[1] = "list"

\* `k in obj` for a mapping
HasKey(obj, k) == k \in DictKeys(obj[2])

\* obj.get(k)
JGet(obj, k) == IF HasKey(obj, k) THEN obj[2][DictIndex(obj[2], k)][2] ELSE None

\* the texts float() accepts, with their values
Numerals == [s \in {"5", "7"} |-> IF s = "5" THEN 5 ELSE 7]

\* float(v): a number, the number a numeral text denotes, or an exception
\* (ValueError for any other text, TypeError for None, a mapping or a list)
Float(v) ==
  IF v # None /\ v[1] = "num" THEN Returned(v)
  ELSE IF v # None /\ v[1] = "str"
       THEN IF v[2] \in DOMAIN Numerals THEN Returned(Num(Numerals[v[2]]))
            ELSE Raised("ValueError")
  ELSE Raised("TypeError")

RECURSIVE _find_timestamps(_)
RECURSIVE FirstTimestamps(_)
\* the first result of _find_timestamps over the items, None if there is none
FirstTimestamps(items) ==
  IF items = <<>> THEN None
  ELSE LET res == _find_timestamps(Head(items))
       IN  IF res # None THEN res ELSE FirstTimestamps(Tail(items))

\* returns None or the pair (begin, end), as Some(<<begin, end>>)
_find_timestamps(obj) ==
  IF IsDict(obj)
  THEN LET t == JGet(obj, "timestamps")
       IN  IF HasKey(obj, "timestamps") /\ IsDict(t) /\ HasKey(t, "begin") /\ HasKey(t, "end")
           THEN Some(<<JGet(t, "begin"), JGet(t, "end")>>)
           ELSE IF HasKey(obj, "begin") /\ HasKey(obj, "end")
           THEN Some(<<JGet(obj, "begin"), JGet(obj, "end")>>)
           ELSE FirstTimestamps([i \in DOMAIN obj[2] |-> obj[2][i][2]])
  ELSE IF IsList(obj) THEN FirstTimestamps(obj[2])
  ELSE None

RECURSIVE _find_elapsed(_)
RECURSIVE FirstElapsed(_)
\* the first result of _find_elapsed over the items that is not None
FirstElapsed(items) ==
  IF items = <<>> THEN None
  ELSE LET res == _find_elapsed(Head(items))
       IN  IF res # None THEN res ELSE FirstElapsed(Tail(items))

\* returns None or the value of an elapsed_seconds key
_find_elapsed(obj) ==
  IF IsDict(obj)
  THEN IF HasKey(obj, "elapsed_seconds") THEN JGet(obj, "elapsed_seconds")
       ELSE FirstElapsed([i \in DOMAIN obj[2] |-> obj[2][i][2]])
  ELSE IF IsList(obj) THEN FirstElapsed(obj[2])
  ELSE None

\* 1) the file itself has elapsed_seconds
DirectElapsed(data) ==
  IF IsDict(data) /\ HasKey(data, "elapsed_seconds")
  THEN LET ev == JGet(data, "elapsed_seconds")
           f == Float(ev)
       IN  IF ev # None /\ f.outcome = "raise" THEN f
           ELSE Returned(Some([start_timestamp |-> JGet(data, "start_timestamp"),
                               end_timestamp |-> JGet(data, "end_timestamp"),
                               elapsed_seconds |-> IF ev = None THEN None ELSE f.value]))
  ELSE FellThrough

\* 2) begin and end found by _find_timestamps; float() of them is inside a
\* try of its own
FromTimestamps(data) ==
  LET ts == _find_timestamps(data)
  IN  IF ts = None THEN FellThrough
      ELSE LET begin == Float(ts[1][1])
               end == Float(ts[1][2])
           IN  IF begin.outcome = "raise" THEN begin
               ELSE IF end.outcome = "raise" THEN end
               ELSE Returned(Some([start_timestamp |-> begin.value,
                                   end_timestamp |-> end.value,
                                   elapsed_seconds |-> Num(end.value[2] - begin.value[2])]))

\* 3) elapsed_seconds found by _find_elapsed; float() of it is inside a try
\* of its own
FromElapsed(data) ==
  LET elapsed_val == _find_elapsed(data)
  IN  IF elapsed_val = None THEN FellThrough
      ELSE LET ev == Float(elapsed_val)
           IN  IF ev.outcome = "raise" THEN ev
               ELSE Returned(Some([elapsed_seconds |-> ev.value]))

\* a metadata file: whether open and json.load succeed, and the value loaded
MetaFile(ok, data) == [parses |-> ok, data |-> data]

\* mutant: a nested elapsed_seconds is looked for before begin and end
ReadCandidate_ElapsedFirst(file) ==
  IF ~file.parses THEN Raised("JSONDecodeError")
  ELSE LET one == DirectElapsed(file.data)
           two == TryExcept(FromTimestamps(file.data))
           three == TryExcept(FromElapsed(file.data))
       IN  IF one.outcome # "fall" THEN one
           ELSE IF three.outcome # "fall" THEN three
           ELSE two

\* the body of the try of one candidate that is a file: returns the timing,
\* falls through with nothing found, or raises
ReadCandidate(file) ==
  IF ~file.parses THEN Raised("JSONDecodeError")
  ELSE LET one == DirectElapsed(file.data)
           two == TryExcept(FromTimestamps(file.data))
           three == TryExcept(FromElapsed(file.data))
       IN  IF one.outcome # "fall" THEN one
           ELSE IF two.outcome # "fall" THEN two
           ELSE three

\* the candidates of extract_metadata_from_report_dir.  A path is the
\* sequence of its names, "/" first when it is absolute; the directories
\* below report_dir are given by their paths relative to it.
AnalysisTime == "analysis_time.json"

MetadataJson == "metadata.json"

\* os.path.dirname: "" for a single relative name, "/" for "/"
dirname(path) == IF path = <<"/">> THEN path ELSE SubSeq(path, 1, Len(path) - 1)

\* the directories directly inside the directory rel, as the set of their
\* relative paths
ChildDirs(subdirs, rel) ==
  {d \in subdirs : Len(d) = Len(rel) + 1 /\ SubSeq(d, 1, Len(rel)) = rel}

\* the order a directory is listed in: listing for report_dir itself; the
\* directories below it hold one directory at most
Listed(subdirs, rel, listing) ==
  IF rel = <<>> THEN listing
  ELSE CHOOSE order \in Orderings(ChildDirs(subdirs, rel)) : TRUE

\* `rel.count(os.sep) > 2`: the walk neither looks into nor descends from
\* such a directory
WalkCutoff == 2

RECURSIVE Walk(_, _, _, _, _)
RECURSIVE WalkDirs(_, _, _, _, _)
\* the walk over the directories dirs, one after the other
WalkDirs(report_dir, subdirs, exists, listing, dirs) ==
  IF dirs = <<>> THEN <<>>
  ELSE Walk(report_dir, subdirs, exists, listing, Head(dirs))
         \o WalkDirs(report_dir, subdirs, exists, listing, Tail(dirs))

\* os.walk from the directory rel, top down: the candidates it appends
Walk(report_dir, subdirs, exists, listing, rel) ==
  IF rel # <<>> /\ Len(rel) - 1 > WalkCutoff THEN <<>>
  ELSE LET found == report_dir \o rel \o <<AnalysisTime>>
       IN  (IF found \in exists THEN <<found>> ELSE <<>>)
             \o WalkDirs(report_dir, subdirs, exists, listing, Listed(subdirs, rel, listing))

RECURSIVE ParentCandidates(_, _)
\* `for _ in range(n)`: analysis_time.json in the next parent directories
ParentCandidates(cur, n) ==
  IF n = 0 \/ dirname(cur) = <<>> THEN <<>>
  ELSE <<dirname(cur) \o <<AnalysisTime>>>> \o ParentCandidates(dirname(cur), n - 1)

\* the parent directories looked into
ParentLevels == 2

\* the list `candidates`, duplicates included
BuildCandidates(report_dir, subdirs, exists, listing) ==
  <<report_dir \o <<AnalysisTime>>, report_dir \o <<MetadataJson>>>>
    \o [i \in DOMAIN listing |-> report_dir \o listing[i] \o <<AnalysisTime>>]
    \o Walk(report_dir, subdirs, exists, listing, <<>>)
    \o ParentCandidates(report_dir, ParentLevels)

\* mutant: a candidate is opened without the isfile test and the handler
TryCandidate_Unguarded(present, file) ==
  IF ~present THEN Raised("FileNotFoundError") ELSE ReadCandidate(file)

\* one candidate that was not seen before: skipped when it is no file; an
\* exception of the try body is logged and the loop goes on
TryCandidate(present, file) ==
  IF ~present THEN FellThrough ELSE TryExcept(ReadCandidate(file))

\* ------------------------------------------------------------ comparator
\* .get("metadata", {}).get("timing", {}) of a payload
PayloadTiming(payload) ==
  IF "metadata" \in DOMAIN payload THEN payload.metadata.timing ELSE NoTiming

\* mutant: the line is left out of the key
EntryKeys_NoLine(fp, entries) ==
  {<<fp, entries[i].checker, None, Or(entries[i].message, "")>> : i \in DOMAIN entries}

\* the keys of one file's entries; `message or ""` leaves a string as it is
EntryKeys(fp, entries) ==
  {<<fp, entries[i].checker, entries[i].line, Or(entries[i].message, "")>> : i \in DOMAIN entries}

entries_to_set(files_map) ==
  UNION {EntryKeys(files_map[i][1], files_map[i][2]) : i \in DOMAIN files_map}

make_detail(item) ==
  [file |-> item[1], checker |-> item[2], line |-> item[3], message |-> item[4]]

NewRec ==
  [tp |-> 0, fp |-> 0, fn |-> 0, tp_details |-> <<>>, fp_details |-> <<>>, fn_details |-> <<>>]

\* mutant: by_checker[checker] = {...} in place of setdefault
SetDefaultRec_Reset(by_checker, checker) ==
  [c \in DOMAIN by_checker \cup {checker} |->
     IF c = checker THEN NewRec ELSE by_checker[c]]

\* by_checker.setdefault(checker, {...}); by_checker is a function on its keys
SetDefaultRec(by_checker, checker) ==
  IF checker \in DOMAIN by_checker THEN by_checker
  ELSE [c \in DOMAIN by_checker \cup {checker} |->
          IF c = checker THEN NewRec ELSE by_checker[c]]

\* the body of one of the three bucketing loops
AddItem(by_checker, item, kind) ==
  LET bc == SetDefaultRec(by_checker, item[2])
      rec == bc[item[2]]
      upd == CASE kind = "tp" -> [rec EXCEPT !.tp = @ + 1,
                                             !.tp_details = Append(@, make_detail(item))]
               [] kind = "fp" -> [rec EXCEPT !.fp = @ + 1,
                                             !.fp_details = Append(@, make_detail(item))]
               [] kind = "fn" -> [rec EXCEPT !.fn = @ + 1,
                                             !.fn_details = Append(@, make_detail(item))]
  IN  [bc EXCEPT ![item[2]] = upd]

RECURSIVE AddItems(_, _, _)
\* `for item in <set>` in the iteration order `items`
AddItems(by_checker, items, kind) ==
  IF items = <<>> THEN by_checker
  ELSE AddItems(AddItem(by_checker, Head(items), kind), Tail(items), kind)

\* a timestamp rendered by isoformat() + "Z"
Iso(t) == <<"iso", t>>

\* summarize_project, given the orders in which the three sets are iterated
\* and the clock reading t
summarize_project(gt, cmp, tp_order, fp_order, fn_order, t) ==
  LET project == Or(gt.project, Or(cmp.project, "unknown"))
      by_tp == AddItems(<<>>, tp_order, "tp")
      by_fp == AddItems(by_tp, fp_order, "fp")
      by_checker == AddItems(by_fp, fn_order, "fn")
  IN  [project |-> project,
       summary |-> [tp |-> Len(tp_order), fp |-> Len(fp_order), fn |-> Len(fn_order)],
       by_checker |-> by_checker,
       generated_at |-> Iso(t)]

\* the three sets summarize_project iterates
TpSet(gt, cmp) == entries_to_set(gt.files) \cap entries_to_set(cmp.files)

\* mutant: the operands of the difference swapped
FpSet_Swapped(gt, cmp) == entries_to_set(gt.files) \ entries_to_set(cmp.files)

FpSet(gt, cmp) == entries_to_set(cmp.files) \ entries_to_set(gt.files)

FnSet(gt, cmp) == entries_to_set(gt.files) \ entries_to_set(cmp.files)

\* f"{n / d:.4f}" in ten-thousandths, for d > 0. The quotient of two integers
\* lies halfway between two 4-digit decimals only if its reduced denominator
\* is a multiple of 32, so below that rounding half up is the printed value.
Fmt4(n, d) == (20000 * n + d) \div (2 * d)

\* mutant: the guard tests the wrong bound
Precision_StrictGuard(tp, fp) == IF tp + fp > 1 THEN Fmt4(tp, tp + fp) ELSE 0

\* prec and rec of write_csv_summary, as printed
Precision(tp, fp) == IF tp + fp > 0 THEN Fmt4(tp, tp + fp) ELSE 0

Recall(tp, fn) == IF tp + fn > 0 THEN Fmt4(tp, tp + fn) ELSE 0

CsvHeader == <<"project_name", "tp", "fp", "fn", "analysis_time", "precision", "recall">>

\* csv.writer(cf).writerow(row): cf.write raises ValueError on a closed file
writerow(cf, row) ==
  IF cf.open THEN [cf EXCEPT !.lines = Append(@, row)]
  ELSE [cf EXCEPT !.raised = "ValueError"]

\* one row of the loop over rows; a row is <<project, tp, fp, fn, analysis_time>>
CsvProjectRow(row, t) ==
  <<row[1], row[2], row[3], row[4], IF row[5] # None THEN row[5] ELSE Iso(t),
    Precision(row[2], row[3]), Recall(row[2], row[4])>>

RECURSIVE WriteRows(_, _, _)
WriteRows(cf, rows, t) ==
  IF rows = <<>> THEN cf
  ELSE WriteRows(writerow(cf, CsvProjectRow(Head(rows), t)), Tail(rows), t)

RECURSIVE SumColumn(_, _)
\* totals[...] after the loop
SumColumn(rows, col) ==
  IF rows = <<>> THEN 0 ELSE Head(rows)[col] + SumColumn(Tail(rows), col)

\* the state of the file at the end of the `with open(...)` block
CsvAfterWith(cf) == [cf EXCEPT !.open = FALSE]

\* the csv file write_csv_summary leaves, and the exception it raises if any
write_csv_summary(rows, t) ==
  LET opened == [open |-> TRUE, lines |-> <<>>, raised |-> ""]
      body == WriteRows(writerow(opened, CsvHeader), rows, t)
      ttp == SumColumn(rows, 2)
      tfp == SumColumn(rows, 3)
      tfn == SumColumn(rows, 4)
  IN  writerow(CsvAfterWith(body),
               <<"all", ttp, tfp, tfn, Iso(t), Precision(ttp, tfp), Recall(ttp, tfn)>>)

\* the truth value Python gives a timestamp value
Truthy(v) ==
  IF v = None THEN FALSE
  ELSE IF v[1] = "num" THEN v[2] # 0
  ELSE v[2] # None

\* mutant: the second operand is preferred
PyOr_Swapped(a, b) == IF Truthy(b) THEN b ELSE a

\* a or b
PyOr(a, b) == IF Truthy(a) THEN a ELSE b

\* timing.get(key)
TimingGet(timing, key) == IF key \in DOMAIN timing THEN timing[key] ELSE None

\* main: the analysis_time of a project's row
analysis_time(cmp_payload, summ, t) ==
  LET timing == PayloadTiming(cmp_payload)
      end_ts == PyOr(TimingGet(timing[1], "end_timestamp"), TimingGet(timing[1], "end_time"))
      start_ts == PyOr(TimingGet(timing[1], "start_timestamp"),
                       TimingGet(timing[1], "start_time"))
      chosen == PyOr(end_ts, start_ts)
      from_timing == IF timing = NoTiming THEN None
                     ELSE IF chosen = None THEN None
                     ELSE IF chosen[1] = "num" THEN Iso(chosen[2])
                     ELSE chosen[2]
  IN  IF from_timing # None THEN from_timing
      ELSE IF summ.generated_at # None THEN summ.generated_at ELSE Iso(t)

\* main: rows.append((project, tp, fp, fn, analysis_time))
SummaryRow(project, cmp_payload, summ, t) ==
  <<project, summ.summary.tp, summ.summary.fp, summ.summary.fn,
    analysis_time(cmp_payload, summ, t)>>

\* the name write_detailed_json writes to
DetailName(dir, project, t) ==
  IF FileName(project, None) \in DOMAIN dir
  THEN FileName(project, Some(t)) ELSE FileName(project, None)

\* mutant: a missing candidate is replaced by a record that has a finding
EmptyCandidate_Leftover(project) ==
  [project |-> project,
   files |-> merge_reports(<<extract_plist(Doc(TRUE, <<DiagUnused>>, EmptyMeta))[1]>>)]

\* main: the candidate compared when cmp_map has no entry for the project
EmptyCandidate(project) == [project |-> project, files |-> <<>>]

\* the files mappings of the records the comparator is given: what
\* merge_reports leaves of a document of at most MaxEntries diagnostics
Records ==
  {merge_reports(<<extract_plist(Doc(TRUE, d, EmptyMeta))[1]>>) : d \in SeqsUpTo(Diags, MaxEntries)}

GtPayloads == {Payload("p1", r, 0, 1, EmptyMeta, NoTiming) : r \in Records}

\* the records with at most one finding
SmallRecords ==
  {merge_reports(<<extract_plist(Doc(TRUE, d, EmptyMeta))[1]>>) : d \in SeqsUpTo(Diags, 1)}

CmpPayloads ==
  {Payload("p1", r, 0, 1, EmptyMeta, tm) : r \in Records, tm \in Timings}
    \cup {Payload("p1", r, 0, 1, EmptyMeta, tm) : r \in SmallRecords, tm \in SparseTimings}

\* the reports lists handed to merge_reports
MergeInputs ==
  SeqsUpTo({extract_plist(Doc(TRUE, d, EmptyMeta))[1] : d \in SeqsUpTo(MergeDiags, MaxMergeDiags)},
           MaxMergeDocs)

\* the pieces of a raw path: the separators of both conventions, a
\* parent-directory marker and two letters
PathTokens == {<<"/">>, <<"\\">>, DotDot, <<"a">>, <<"p">>}

RECURSIVE Concat(_)
Concat(pieces) == IF pieces = <<>> THEN <<>> ELSE Head(pieces) \o Concat(Tail(pieces))

\* the raw paths handed to make_relative_path
RawPaths == {Concat(pieces) : pieces \in SeqsUpTo(PathTokens, MaxPathTokens)}

\* the project roots: none, "/", "/p", "p" and "/a/p"
PathRoots == {<<>>, <<"/">>, <<"/", "p">>, <<"p">>, <<"/", "a", "/", "p">>}

\* the working directories: removed, "/", "/p", "/p/a" and "/a"
WorkDirs ==
  {None, Some(<<"/">>), Some(<<"/", "p">>), Some(<<"/", "p", "/", "a">>), Some(<<"/", "a">>)}

\* ------------------------------------------------------------------ state
VARIABLES
  xpc,            \* extractor: "idle", "loop", "done", "error", "exit";
                  \* merge_reports alone: "merge", "merged"
  n_plists,       \* len(plist_paths)
  all_reports,    \* the reports parsed so far, one per document
  plist_metadata, \* the embedded metadata kept so far
  metas_read,     \* the metadata of each document parsed so far (history)
  docs_loaded,    \* whether plistlib loaded each document read so far (history)
  project_name,   \* --project
  project_root,   \* --project-root
  merged,         \* the result of merge_reports
  out_dir,        \* the output directory: file name -> content
  out_path,       \* the name generate_intermediate wrote to
  out_writes,     \* the names opened for writing by this invocation (history)
  cpc,            \* comparison: "idle", "start", "summarized", "written"
  gt_payload,     \* the ground-truth record being compared
  cmp_payload,    \* the candidate record it is compared against
  summary,        \* the result of summarize_project
  rows,           \* the rows handed to write_csv_summary
  csv,            \* the csv file and the exception write_csv_summary raised
  mpc,            \* comparator main: "idle", "run", "exit", "crashed"
  n_gt,           \* len(gt_files)
  n_cmp,          \* len(cmp_files)
  n_loaded,       \* candidate files iterated so far
  n_done,         \* ground-truth files iterated so far
  cmp_map,        \* project -> candidate payload
  written_files,  \* the detail files written, in order
  results_dir,    \* the results directory: file name -> content
  exit_code,      \* the status main ends with, None while it runs
  npc,            \* make_relative_path: "idle", "call", "returned"
  raw_path,       \* its first argument
  raw_root,       \* its second argument
  workdir,        \* the working directory of the process, None when removed
  normalized,     \* what the call returned
  ppc,            \* extract_plist alone: "idle", "call", "returned"
  plist_doc,      \* the document it is applied to
  plist_result,   \* what it returned
  ipc,            \* one timing candidate alone: "idle", "read", "done"
  meta_file,      \* the candidate file
  interpretation, \* the outcome of the try body on it
  tpc,            \* extract_metadata_from_report_dir: "idle", "start", "loop",
                  \* "returned", "raised"
  report_dir,     \* its argument
  subdirs,        \* the directories below report_dir
  listing,        \* the order report_dir lists its directories in
  meta_exists,    \* the metadata files that exist
  candidates,     \* the list of candidate paths
  n_tried,        \* candidates the loop has gone through
  seen,           \* the set of paths already met in the loop
  tried,          \* the candidates not skipped as seen, with what was found
                  \* at each (history)
  timing_meta,    \* what the call returned
  tasks,          \* two invocations side by side: the local names of each
  shared_out,     \* the output directory they share
  shared_results, \* the results directory they share
  start_dirs,     \* the two directories as they were at the start (history)
  overlapped,     \* whether one took a step while the other was under way
                  \* (history)
  now             \* the wall clock, in seconds

extractVars ==
  <<xpc, n_plists, all_reports, plist_metadata, metas_read, docs_loaded, project_name,
    project_root, merged, out_dir, out_path, out_writes>>

compareVars == <<cpc, gt_payload, cmp_payload, summary, rows, csv>>

mainVars ==
  <<mpc, n_gt, n_cmp, n_loaded, n_done, cmp_map, written_files, results_dir, exit_code>>

pathVars == <<npc, raw_path, raw_root, workdir, normalized>>

plistVars == <<ppc, plist_doc, plist_result>>

\* the variables of the specifications of one function
interpVars == <<ipc, meta_file, interpretation>>

timingVars ==
  <<tpc, report_dir, subdirs, listing, meta_exists, candidates, n_tried, seen, tried,
    timing_meta>>

taskVars == <<tasks, shared_out, shared_results, start_dirs, overlapped>>

restVars == <<pathVars, plistVars, interpVars, timingVars, taskVars>>

vars == <<extractVars, compareVars, mainVars, restVars, now>>

ExtractIdle ==
  /\ xpc = "idle"
  /\ n_plists = 0
  /\ all_reports = <<>>
  /\ plist_metadata = EmptyMeta
  /\ metas_read = <<>>
  /\ docs_loaded = <<>>
  /\ project_name = ""
  /\ project_root = ""
  /\ merged = <<>>
  /\ out_dir = EmptyDir
  /\ out_path = None
  /\ out_writes = <<>>

CompareIdle ==
  /\ cpc = "idle"
  /\ gt_payload = None
  /\ cmp_payload = None
  /\ summary = None
  /\ rows = <<>>
  /\ csv = None

PathIdle ==
  /\ npc = "idle"
  /\ raw_path = <<>>
  /\ raw_root = <<>>
  /\ workdir = None
  /\ normalized = None

PlistIdle ==
  /\ ppc = "idle"
  /\ plist_doc = None
  /\ plist_result = None

InterpIdle ==
  /\ ipc = "idle"
  /\ meta_file = None
  /\ interpretation = None

TimingIdle ==
  /\ tpc = "idle"
  /\ report_dir = <<>>
  /\ subdirs = {}
  /\ listing = <<>>
  /\ meta_exists = {}
  /\ candidates = <<>>
  /\ n_tried = 0
  /\ seen = {}
  /\ tried = <<>>
  /\ timing_meta = None

TaskIdle ==
  /\ tasks = <<>>
  /\ shared_out = EmptyDir
  /\ shared_results = EmptyDir
  /\ start_dirs = <<>>
  /\ overlapped = FALSE

RestIdle == PathIdle /\ PlistIdle /\ InterpIdle /\ TimingIdle /\ TaskIdle

MainIdle ==
  /\ mpc = "idle"
  /\ n_gt = 0
  /\ n_cmp = 0
  /\ n_loaded = 0
  /\ n_done = 0
  /\ cmp_map = <<>>
  /\ written_files = <<>>
  /\ results_dir = EmptyDir
  /\ exit_code = None

\* ----------------------------------------------------------- merge_reports
MergeInit ==
  /\ xpc = "merge"
  /\ n_plists = 0
  /\ all_reports \in MergeInputs
  /\ plist_metadata = EmptyMeta
  /\ metas_read = <<>>
  /\ docs_loaded = <<>>
  /\ project_name = ""
  /\ project_root = ""
  /\ merged = <<>>
  /\ out_dir = EmptyDir
  /\ out_path = None
  /\ out_writes = <<>>
  /\ CompareIdle
  /\ MainIdle
  /\ RestIdle
  /\ now = 1

\* merge_reports applied to one reports list
MR_Merge ==
  /\ xpc = "merge"
  /\ merged' = merge_reports(all_reports)
  /\ xpc' = "merged"
  /\ UNCHANGED <<restVars, n_plists, all_reports, plist_metadata, metas_read, docs_loaded,
                 project_name,
                 project_root, out_dir, out_path, out_writes, compareVars, mainVars, now>>

MergeNext == MR_Merge

SpecMerge == MergeInit /\ [][MergeNext]_vars

\* ------------------------------- generate_intermediate, extractor's main
ExtractDocs ==
  {Doc(TRUE, d, m) : d \in SeqsUpTo(ExtractDiags, MaxDiags), m \in Metas}
    \cup {Doc(FALSE, <<>>, EmptyMeta), Doc(FALSE, <<DiagLeak>>, {"analyzer"})}

\* the output directory when the extractor starts: empty, holding the
\* record of an earlier run, or holding the records of two earlier runs, the
\* second of them written in the current second
OutDirs ==
  {EmptyDir,
   WriteFile(EmptyDir, FileName("p1", None), OldPayload),
   WriteFile(WriteFile(EmptyDir, FileName("p1", None), OldPayload),
             FileName("p1", Some(1)), OldPayload)}

ExtractInit ==
  /\ xpc = "loop"
  /\ n_plists \in 0..MaxDocs
  /\ all_reports = <<>>
  /\ plist_metadata = EmptyMeta
  /\ metas_read = <<>>
  /\ docs_loaded = <<>>
  /\ project_name \in ProjectNames
  /\ project_root \in ProjectRoots
  /\ merged = <<>>
  /\ out_dir \in OutDirs
  /\ out_path = None
  /\ out_writes = <<>>
  /\ CompareIdle
  /\ MainIdle
  /\ RestIdle
  /\ now = 1

\* plist_paths is empty: FileNotFoundError
GI_NoPlists ==
  /\ xpc = "loop"
  /\ n_plists = 0
  /\ xpc' = "error"
  /\ UNCHANGED <<restVars, n_plists, all_reports, plist_metadata, metas_read, docs_loaded,
                 project_name,
                 project_root, merged, out_dir, out_path, out_writes, compareVars, mainVars,
                 now>>

\* one iteration of `for p in plist_paths`
GI_ReadPlist ==
  /\ xpc = "loop"
  /\ Len(all_reports) < n_plists
  /\ \E doc \in ExtractDocs :
       LET rm == extract_plist(doc)
       IN  /\ all_reports' = Append(all_reports, rm[1])
           /\ plist_metadata' = KeepMetadata(plist_metadata, rm[2])
           /\ metas_read' = Append(metas_read, rm[2])
           /\ docs_loaded' = Append(docs_loaded, doc.readable)
  /\ UNCHANGED <<restVars, xpc, n_plists, project_name, project_root, merged, out_dir, out_path,
                 out_writes, compareVars, mainVars, now>>

\* the rest of generate_intermediate, after the loop; what
\* extract_metadata_from_report_dir finds in the report directory is an input
GI_Finish ==
  /\ xpc = "loop"
  /\ n_plists > 0
  /\ Len(all_reports) = n_plists
  /\ merged' = merge_reports(all_reports)
  /\ IF project_root # "" /\ merged' # <<>>
     THEN \* make_relative_path is a local name bound only further down:
          \* the first call raises UnboundLocalError
          /\ xpc' = "error"
          /\ UNCHANGED <<out_dir, out_path, out_writes, now>>
     ELSE \E timing \in Timings, t \in now..MaxClock :
            LET project == Or(project_name, Or(ReportDirName, "unknown"))
                payload == Payload(project, merged', t, n_plists, plist_metadata, timing)
                name == IF FileName(project, None) \in DOMAIN out_dir
                        THEN FileName(project, Some(t)) ELSE FileName(project, None)
            IN  /\ out_dir' = WriteFile(out_dir, name, payload)
                /\ out_path' = name
                /\ out_writes' = Append(out_writes, name)
                /\ now' = t
                /\ xpc' = "done"
  /\ UNCHANGED <<restVars, n_plists, all_reports, plist_metadata, metas_read, docs_loaded,
                 project_name,
                 project_root, compareVars, mainVars>>

\* d[k] = v on an insertion-ordered dict
DictSet(d, k, v) ==
  IF k \in DictKeys(d) THEN [d EXCEPT ![DictIndex(d, k)] = <<k, v>>]
  ELSE Append(d, <<k, v>>)

\* main: the key a file path is mapped to. The paths of the model's documents
\* are relative names without the root's basename in them, so relpath gives
\* sub/fp when the working directory is the directory sub of the root, fp
\* when it is the root itself, and a path that is rejected, or an exception,
\* in every other case, which leaves fp; sub is "" for all but the first.
main_mapped(fp, sub) == IF sub = "" THEN fp ELSE sub \o "/" \o fp

RECURSIVE RelativizeFiles(_, _)
\* main: the loop `new_files[mapped] = entries` over payload['files']
RelativizeFiles(files, sub) ==
  IF files = <<>> THEN <<>>
  ELSE LET last == files[Len(files)]
       IN  DictSet(RelativizeFiles(SubSeq(files, 1, Len(files) - 1), sub),
                   main_mapped(last[1], sub), last[2])

\* the extractor's main after generate_intermediate: with a project root
\* the file just written is read back and written again under the same name
XM_Finish ==
  /\ xpc \in {"done", "error"}
  /\ xpc' = "exit"
  /\ IF xpc = "error"
     THEN /\ exit_code' = Some(2)
          /\ UNCHANGED <<out_dir, out_writes>>
     ELSE /\ exit_code' = Some(0)
          /\ IF project_root = ""
             THEN UNCHANGED <<out_dir, out_writes>>
             ELSE \E sub \in {"", "lib"} :
                    LET payload == out_dir[out_path]
                        new_files == RelativizeFiles(payload.files, sub)
                    IN  /\ out_dir' = WriteFile(out_dir, out_path,
                                                [payload EXCEPT !.files = new_files])
                        /\ out_writes' = Append(out_writes, out_path)
  /\ UNCHANGED <<restVars, n_plists, all_reports, plist_metadata, metas_read, docs_loaded,
                 project_name,
                 project_root, merged, out_path, compareVars, mpc, n_gt, n_cmp, n_loaded,
                 n_done, cmp_map, written_files, results_dir, now>>

ExtractNext == GI_NoPlists \/ GI_ReadPlist \/ GI_Finish \/ XM_Finish

SpecExtract == ExtractInit /\ [][ExtractNext]_vars

\* -------------------------------------- summarize_project, write_csv_summary
CompareInit ==
  /\ ExtractIdle
  /\ MainIdle
  /\ cpc = "start"
  /\ gt_payload \in GtPayloads
  /\ cmp_payload \in CmpPayloads
  /\ summary = None
  /\ rows = <<>>
  /\ csv = None
  /\ RestIdle
  /\ now = 1

\* summarize_project applied to the two records
CP_Summarize ==
  /\ cpc = "start"
  /\ \E tp_order \in Orderings(TpSet(gt_payload, cmp_payload)),
        fp_order \in Orderings(FpSet(gt_payload, cmp_payload)),
        fn_order \in Orderings(FnSet(gt_payload, cmp_payload)),
        t \in now..MaxClock :
       /\ summary' = summarize_project(gt_payload, cmp_payload, tp_order, fp_order, fn_order, t)
       /\ now' = t
  /\ cpc' = "summarized"
  /\ UNCHANGED <<restVars, extractVars, mainVars, gt_payload, cmp_payload, rows, csv>>

\* write_csv_summary applied to the project's row
CP_WriteCsv ==
  /\ cpc = "summarized"
  /\ \E t \in now..MaxClock :
       /\ rows' = <<SummaryRow(summary.project, cmp_payload, summary, t)>>
       /\ csv' = write_csv_summary(rows', t)
       /\ now' = t
  /\ cpc' = "written"
  /\ UNCHANGED <<restVars, extractVars, mainVars, gt_payload, cmp_payload, summary>>

CompareNext == CP_Summarize \/ CP_WriteCsv

SpecCompare == CompareInit /\ [][CompareNext]_vars

\* --------------------------------------------------------- comparator main
MainProjects == {"p1", "p2"}

\* the files mappings of the records main finds on disk
MainRecords ==
  {merge_reports(<<extract_plist(Doc(TRUE, d, EmptyMeta))[1]>>) :
     d \in {<<>>, <<DiagLeak>>, <<DiagLeak, DiagUnused>>}}

\* a json file: its name without extension, whether json.load succeeds, its payload
JsonFile(basename, ok, payload) == [basename |-> basename, loadable |-> ok, payload |-> payload]

\* a files mapping main loads but cannot compare: {"f.c": [null]}
NullEntryFiles == <<<<"f.c", <<None>>>>>>

\* entries_to_set calls e.get on every entry: an entry that is no mapping
\* raises AttributeError
Comparable(payload) ==
  \A i \in DOMAIN payload.files :
    \A j \in DOMAIN payload.files[i][2] : payload.files[i][2][j] # None

GtFiles ==
  {JsonFile("file", TRUE, Payload(p, r, 0, 1, EmptyMeta, NoTiming)) :
     p \in MainProjects, r \in MainRecords}
    \cup {JsonFile("file", FALSE, None),
          JsonFile("file", TRUE, Payload("p1", NullEntryFiles, 0, 1, EmptyMeta, NoTiming))}

CmpFiles ==
  {JsonFile("file", TRUE, Payload(p, r, 0, 1, EmptyMeta, tm)) :
     p \in MainProjects, r \in MainRecords, tm \in Timings}
    \cup {JsonFile("file", FALSE, None)}

\* the detail file an earlier run of the same day left for p1
OldSummary ==
  summarize_project(EmptyCandidate("p1"), EmptyCandidate("p1"), <<>>, <<>>, <<>>, 0)

\* the results directory <outdir>/<date> when main starts: absent, or left by
\* an earlier run of the same day
ResultsDirs == {EmptyDir, WriteFile(EmptyDir, FileName("p1", None), OldSummary)}

\* cmp_map[project] = (p, payload); the path p is never read
MapPut(map, project, payload) ==
  [k \in DOMAIN map \cup {project} |-> IF k = project THEN payload ELSE map[k]]

MainInit ==
  /\ ExtractIdle
  /\ cpc = "idle"
  /\ gt_payload = None
  /\ cmp_payload = None
  /\ summary = None
  /\ rows = <<>>
  /\ csv = None
  /\ mpc = "run"
  /\ n_gt \in 0..MaxGtFiles
  /\ n_cmp \in 0..MaxCmpFiles
  /\ n_loaded = 0
  /\ n_done = 0
  /\ cmp_map = <<>>
  /\ written_files = <<>>
  /\ results_dir \in ResultsDirs
  /\ exit_code = None
  /\ RestIdle
  /\ now = 1

\* mutant: the missing input is reported with status 0
M_NoInput_StatusZero ==
  /\ mpc = "run"
  /\ n_gt = 0 \/ n_cmp = 0
  /\ mpc' = "exit"
  /\ exit_code' = Some(0)
  /\ UNCHANGED <<restVars, extractVars, compareVars, n_gt, n_cmp, n_loaded, n_done, cmp_map,
                 written_files, results_dir, now>>

\* no ground-truth file or no candidate file: return 2
M_NoInput ==
  /\ mpc = "run"
  /\ n_gt = 0 \/ n_cmp = 0
  /\ mpc' = "exit"
  /\ exit_code' = Some(2)
  /\ UNCHANGED <<restVars, extractVars, compareVars, n_gt, n_cmp, n_loaded, n_done, cmp_map,
                 written_files, results_dir, now>>

\* one iteration of `for p in cmp_files`
M_LoadCmp ==
  /\ mpc = "run"
  /\ n_gt > 0 /\ n_cmp > 0
  /\ n_loaded < n_cmp
  /\ n_loaded' = n_loaded + 1
  /\ \E f \in CmpFiles :
       IF f.loadable
       THEN cmp_map' = MapPut(cmp_map, Or(f.payload.project, f.basename), f.payload)
       ELSE UNCHANGED cmp_map
  /\ UNCHANGED <<restVars, extractVars, compareVars, mpc, n_gt, n_cmp, n_done, written_files,
                 results_dir, exit_code, now>>

\* mutant: the row is appended whether or not the detail file was written
RowsAfter_Always(rs, wrote, row) == Append(rs, row)

\* rows.append(...) is reached only when write_detailed_json has returned
RowsAfter(rs, wrote, row) == IF wrote THEN Append(rs, row) ELSE rs

\* one iteration of `for g in gt_files`: an exception anywhere in the body
\* is logged and the loop goes on
M_ProcessGt ==
  /\ mpc = "run"
  /\ n_gt > 0 /\ n_cmp > 0
  /\ n_loaded = n_cmp
  /\ n_done < n_gt
  /\ n_done' = n_done + 1
  /\ \E f \in GtFiles :
       IF ~f.loadable
       THEN UNCHANGED <<gt_payload, cmp_payload, summary, rows, written_files, results_dir, now>>
       ELSE LET project == Or(f.payload.project, f.basename)
                cand == IF project \in DOMAIN cmp_map THEN cmp_map[project]
                        ELSE EmptyCandidate(project)
            IN  /\ gt_payload' = f.payload
                /\ cmp_payload' = cand
                /\ IF ~Comparable(f.payload)
                   THEN UNCHANGED <<summary, rows, written_files, results_dir, now>>
                   ELSE \E tp_order \in Orderings(TpSet(f.payload, cand)),
                           fp_order \in Orderings(FpSet(f.payload, cand)),
                           fn_order \in Orderings(FnSet(f.payload, cand)),
                           t \in now..MaxClock, write_ok \in BOOLEAN :
                          /\ summary' = summarize_project(f.payload, cand, tp_order, fp_order, fn_order, t)
                          /\ now' = t
                          /\ rows' = RowsAfter(rows, write_ok, SummaryRow(project, cand, summary', t))
                          /\ IF write_ok
                             THEN LET name == DetailName(results_dir, project, t)
                                  IN  /\ results_dir' = WriteFile(results_dir, name, summary')
                                      /\ written_files' = Append(written_files, name)
                             ELSE UNCHANGED <<written_files, results_dir>>
  /\ UNCHANGED <<restVars, extractVars, cpc, csv, mpc, n_gt, n_cmp, n_loaded, cmp_map, exit_code>>

\* write_csv_summary(results_dir, rows) and the end of main
M_WriteCsv ==
  /\ mpc = "run"
  /\ n_gt > 0 /\ n_cmp > 0
  /\ n_loaded = n_cmp
  /\ n_done = n_gt
  /\ \E t \in now..MaxClock :
       /\ csv' = write_csv_summary(rows, t)
       /\ now' = t
  /\ IF csv'.raised # ""
     THEN mpc' = "crashed" /\ exit_code' = Some(1)
     ELSE mpc' = "exit" /\ exit_code' = Some(0)
  /\ UNCHANGED <<restVars, extractVars, cpc, gt_payload, cmp_payload, summary, rows, n_gt, n_cmp,
                 n_loaded, n_done, cmp_map, written_files, results_dir>>

MainNext == M_NoInput \/ M_LoadCmp \/ M_ProcessGt \/ M_WriteCsv

SpecMain == MainInit /\ [][MainNext]_vars

\* ------------------------------------- one run of either command-line tool
PipelineInit == ExtractInit \/ MainInit

PipelineNext == ExtractNext \/ MainNext

SpecPipeline == PipelineInit /\ [][PipelineNext]_vars

\* ------------------------------------------------------ make_relative_path
PathInit ==
  /\ ExtractIdle
  /\ CompareIdle
  /\ MainIdle
  /\ TaskIdle
  /\ npc = "call"
  /\ raw_path \in RawPaths
  /\ raw_root \in PathRoots
  /\ workdir \in WorkDirs
  /\ normalized = None
  /\ PlistIdle
  /\ InterpIdle
  /\ TimingIdle
  /\ now = 1

\* make_relative_path applied to one raw path
NP_Call ==
  /\ npc = "call"
  /\ normalized' = make_relative_path(raw_path, raw_root, workdir)
  /\ npc' = "returned"
  /\ UNCHANGED <<extractVars, compareVars, mainVars, taskVars, plistVars, interpVars, timingVars,
                 raw_path, raw_root, workdir, now>>

PathNext == NP_Call

SpecPath == PathInit /\ [][PathNext]_vars

\* ------------------------------------------------------ extract_plist alone
\* the `files` arrays of the documents: none, one name, two names, and an
\* array whose first name is the empty string
PlistFiles == {<<>>, <<"f.c">>, <<"f.c", "g.c">>, <<"", "g.c">>}

\* diagnostics over every combination of the two checker fields, of the two
\* message fields, and of file index, file_path and path
PlistDiags ==
  {Diag(cn, cat, "leak", "", Some(10), Some(0), "") :
     cn \in {"", "checkerA"}, cat \in {"", "categoryB"}}
    \cup {Diag("checkerA", "", desc, msg, None, Some(0), "") :
            desc \in {"", "leak"}, msg \in {"", "unused"}}
    \cup {[Diag("checkerA", "", "leak", "", Some(10), fi, fpath) EXCEPT !.path = pth] :
            fi \in {None, Some(-1), Some(0), Some(1), Some(2)},
            fpath \in {"", "x.c"}, pth \in {"", "y.c"}}

PlistDocs ==
  {[Doc(ok, d, EmptyMeta) EXCEPT !.files = fs] :
     ok \in BOOLEAN, d \in SeqsUpTo(PlistDiags, MaxPlistDiags), fs \in PlistFiles}

PlistInit ==
  /\ ExtractIdle
  /\ CompareIdle
  /\ MainIdle
  /\ TaskIdle
  /\ PathIdle
  /\ InterpIdle
  /\ TimingIdle
  /\ ppc = "call"
  /\ plist_doc \in PlistDocs
  /\ plist_result = None
  /\ now = 1

\* extract_plist applied to one document
EP_Call ==
  /\ ppc = "call"
  /\ plist_result' = extract_plist(plist_doc)
  /\ ppc' = "returned"
  /\ UNCHANGED <<extractVars, compareVars, mainVars, taskVars, pathVars, interpVars, timingVars,
                 plist_doc, now>>

PlistNext == EP_Call

SpecPlist == PlistInit /\ [][PlistNext]_vars

\* ------------------------------------------- one timing candidate alone
\* no pair, or the pair of key k and one of the values
OptPair(k, values) == {<<>>} \cup {<<<<k, v>>>> : v \in values}

\* {"begin": b, "end": e}
BeginEnd(b, e) == JDict(<<<<"begin", b>>, <<"end", e>>>>)

\* the mappings a metadata file holds: each key absent or present, the keys
\* in this order
MetaDicts ==
  {JDict(e \o s \o t \o b \o a \o r) :
     e \in OptPair("elapsed_seconds", {None, Num(8), Txt("5"), Txt("soon")}),
     s \in {<<>>, <<<<"start_timestamp", Num(3)>>, <<"end_timestamp", Txt("late")>>>>},
     t \in OptPair("timestamps",
                   {BeginEnd(Num(3), Num(8)), BeginEnd(Txt("soon"), Num(8)),
                    BeginEnd(None, Num(8)), JDict(<<<<"begin", Num(3)>>>>), Num(1)}),
     b \in {<<>>, BeginEnd(Num(4), Num(6))[2], BeginEnd(Txt("5"), Txt("7"))[2],
            <<<<"begin", Num(4)>>>>},
     a \in OptPair("analysis",
                   {JDict(<<<<"elapsed_seconds", Num(9)>>>>),
                    JDict(<<<<"elapsed_seconds", None>>>>), BeginEnd(Num(1), Num(2))}),
     r \in OptPair("runs",
                   {JDict(<<<<"elapsed_seconds", Txt("7")>>>>),
                    BeginEnd(Txt("soon"), Num(2)), JList(<<BeginEnd(Num(5), Num(7))>>)})}

RECURSIVE Nested(_, _)
\* the values wrapped in at most n mappings or lists
Nested(values, n) ==
  IF n = 0 THEN values
  ELSE LET inner == Nested(values, n - 1)
       IN  inner \cup {JDict(<<<<"report", v>>>>) : v \in inner} \cup {JList(<<v>>) : v \in inner}

\* the candidate files: unreadable, holding a scalar, or holding a mapping
MetaFiles ==
  {MetaFile(FALSE, None), MetaFile(TRUE, None), MetaFile(TRUE, Num(1)), MetaFile(TRUE, Txt("5"))}
    \cup {MetaFile(TRUE, v) : v \in Nested(MetaDicts, MaxNesting)}

InterpInit ==
  /\ ExtractIdle
  /\ CompareIdle
  /\ MainIdle
  /\ TaskIdle
  /\ PathIdle
  /\ PlistIdle
  /\ TimingIdle
  /\ ipc = "read"
  /\ meta_file \in MetaFiles
  /\ interpretation = None
  /\ now = 1

\* the try body of the candidates loop on one file
IN_Read ==
  /\ ipc = "read"
  /\ interpretation' = ReadCandidate(meta_file)
  /\ ipc' = "done"
  /\ UNCHANGED <<extractVars, compareVars, mainVars, taskVars, pathVars, plistVars, timingVars,
                 meta_file, now>>

InterpNext == IN_Read

SpecInterp == InterpInit /\ [][InterpNext]_vars

\* ----------------------------------------- extract_metadata_from_report_dir
\* reports, x/y/reports and /reports
ReportDirs == {<<"reports">>, <<"x", "y", "reports">>, <<"/", "reports">>}

\* the directories a, a/a, ... down to k levels
Chain(k) == {[i \in 1..j |-> "a"] : j \in 1..k}

\* what lies below report_dir: a chain of directories and, or, a directory b
Trees == {Chain(k) \cup b : k \in 0..MaxWalkDepth, b \in {{}, {<<"b">>}}}

\* the places of the metadata files: analysis_time.json in report_dir and
\* in every directory below it, metadata.json in report_dir and in its
\* directories, analysis_time.json in the parent directories
MetaPlaces(dir, below) ==
  {dir \o rel \o <<AnalysisTime>> : rel \in below \cup {<<>>}}
    \cup {dir \o rel \o <<MetadataJson>> : rel \in ChildDirs(below, <<>>) \cup {<<>>}}
    \cup Range(ParentCandidates(dir, ParentLevels))

\* what a metadata file holds: nothing json.load accepts, nothing of
\* interest, an elapsed time that is no number, an elapsed time, a begin and
\* an end
TimingFiles ==
  {MetaFile(FALSE, None), MetaFile(TRUE, JDict(<<>>)),
   MetaFile(TRUE, JDict(<<<<"elapsed_seconds", Txt("soon")>>>>)),
   MetaFile(TRUE, JDict(<<<<"elapsed_seconds", Num(8)>>>>)),
   MetaFile(TRUE, BeginEnd(Num(3), Num(8)))}

TimingInit ==
  /\ ExtractIdle
  /\ CompareIdle
  /\ MainIdle
  /\ TaskIdle
  /\ PathIdle
  /\ PlistIdle
  /\ InterpIdle
  /\ tpc = "start"
  /\ report_dir \in ReportDirs
  /\ subdirs \in Trees
  /\ listing \in Orderings(ChildDirs(subdirs, <<>>))
  /\ meta_exists \in {s \in SUBSET MetaPlaces(report_dir, subdirs) :
                         Cardinality(s) <= MaxMetaFiles}
  /\ candidates = <<>>
  /\ n_tried = 0
  /\ seen = {}
  /\ tried = <<>>
  /\ timing_meta = None
  /\ now = 1

\* the list of candidates is put together
TM_Candidates ==
  /\ tpc = "start"
  /\ candidates' = BuildCandidates(report_dir, subdirs, meta_exists, listing)
  /\ tpc' = "loop"
  /\ UNCHANGED <<extractVars, compareVars, mainVars, taskVars, pathVars, plistVars, interpVars,
                 report_dir, subdirs, listing, meta_exists, n_tried, seen, tried,
                 timing_meta, now>>

\* one iteration of `for meta_path in candidates`; what an existing file
\* holds is read here, and no file is read twice
TM_Try ==
  /\ tpc = "loop"
  /\ n_tried < Len(candidates)
  /\ n_tried' = n_tried + 1
  /\ LET meta_path == candidates[n_tried + 1]
     IN  IF meta_path \in seen
         THEN UNCHANGED <<tpc, seen, tried, timing_meta>>
         ELSE /\ seen' = seen \cup {meta_path}
              /\ \E file \in TimingFiles :
                   LET present == meta_path \in meta_exists
                       result == TryCandidate(present, file)
                   IN  /\ tried' = Append(tried, [path |-> meta_path, present |-> present,
                                                   file |-> IF present THEN file
                                                            ELSE MetaFile(FALSE, None)])
                       /\ IF result.outcome = "return"
                          THEN timing_meta' = result.value /\ tpc' = "returned"
                          ELSE IF result.outcome = "raise"
                          THEN UNCHANGED timing_meta /\ tpc' = "raised"
                          ELSE UNCHANGED <<timing_meta, tpc>>
  /\ UNCHANGED <<extractVars, compareVars, mainVars, taskVars, pathVars, plistVars, interpVars,
                 report_dir, subdirs, listing, meta_exists, candidates, now>>

\* the list is exhausted: `return {}`
TM_ReturnEmpty ==
  /\ tpc = "loop"
  /\ n_tried = Len(candidates)
  /\ timing_meta' = NoTiming
  /\ tpc' = "returned"
  /\ UNCHANGED <<extractVars, compareVars, mainVars, taskVars, pathVars, plistVars, interpVars,
                 report_dir, subdirs, listing, meta_exists, candidates, n_tried, seen, tried,
                 now>>

TimingNext == TM_Candidates \/ TM_Try \/ TM_ReturnEmpty

SpecTiming == TimingInit /\ [][TimingNext]_vars

\* ----------------------------------------------- two projects side by side
\* --project of the two invocations: p1, and none, on a directory named
\* reports
TaskNames == <<"p1", "">>

\* payload["project"] of invocation i
ProjectOf(i) == Or(TaskNames[i], Or(ReportDirName, "unknown"))

\* the parsed reports of a project: one document, or two documents that
\* share a finding
TaskReports ==
  {<<extract_plist(Doc(TRUE, <<DiagLeak>>, EmptyMeta))[1]>>,
   <<extract_plist(Doc(TRUE, <<DiagLeak, DiagUnused>>, EmptyMeta))[1],
     extract_plist(Doc(TRUE, <<DiagLeak>>, EmptyMeta))[1]>>}

\* the ground-truth records of project i: no finding, or one
TaskTruths(i) ==
  {Payload(ProjectOf(i), merge_reports(<<extract_plist(Doc(TRUE, d, EmptyMeta))[1]>>), 0, 1,
           EmptyMeta, NoTiming) : d \in {<<>>, <<DiagLeak>>}}

\* the output directory at the start: empty, or holding p1.json
TaskOutDirs == {EmptyDir, WriteFile(EmptyDir, FileName("p1", None), OldPayload)}

\* the local names of one invocation before its first statement
NewTask(reports, gt) ==
  [pc |-> "start", all_reports |-> reports, gt_payload |-> gt, payload |-> None,
   out_path |-> None, summary |-> None, detail_path |-> None]

TaskInit ==
  /\ ExtractIdle
  /\ CompareIdle
  /\ MainIdle
  /\ PathIdle
  /\ PlistIdle
  /\ InterpIdle
  /\ TimingIdle
  /\ tasks \in {<<NewTask(r1, g1), NewTask(r2, g2)>> :
                  r1 \in TaskReports, g1 \in TaskTruths(1),
                  r2 \in TaskReports, g2 \in TaskTruths(2)}
  /\ shared_out \in TaskOutDirs
  /\ shared_results \in ResultsDirs
  /\ start_dirs = <<shared_out, shared_results>>
  /\ overlapped = FALSE
  /\ now = 1

\* invocation i goes on with the local names `locals`
Step(i, locals) ==
  /\ tasks' = [tasks EXCEPT ![i] = locals]
  /\ overlapped' = (overlapped \/ \E j \in DOMAIN tasks :
                                    j # i /\ tasks[j].pc \notin {"start", "done"})

\* generate_intermediate up to the payload: the reports are merged and the
\* record is put together, in names local to the call; the report directory
\* holds no timing file and no --project-root is given
PJ_Build(i) ==
  /\ tasks[i].pc = "start"
  /\ \E t \in now..MaxClock :
       LET merged_i == merge_reports(tasks[i].all_reports)
       IN  /\ Step(i, [tasks[i] EXCEPT
                         !.payload = Payload(ProjectOf(i), merged_i, t,
                                             Len(tasks[i].all_reports), EmptyMeta, NoTiming),
                         !.pc = "built"])
           /\ now' = t
  /\ UNCHANGED <<extractVars, compareVars, mainVars, pathVars, plistVars, interpVars,
                 timingVars, shared_out, shared_results, start_dirs>>

\* generate_intermediate: os.path.exists(out_path) and the choice of the name
PJ_ChooseName(i) ==
  /\ tasks[i].pc = "built"
  /\ \E t \in now..MaxClock :
       /\ Step(i, [tasks[i] EXCEPT
                     !.out_path = IF FileName(ProjectOf(i), None) \in DOMAIN shared_out
                                  THEN FileName(ProjectOf(i), Some(t))
                                  ELSE FileName(ProjectOf(i), None),
                     !.pc = "named"])
       /\ now' = t
  /\ UNCHANGED <<extractVars, compareVars, mainVars, pathVars, plistVars, interpVars,
                 timingVars, shared_out, shared_results, start_dirs>>

\* generate_intermediate: open(out_path, "w") and json.dump(payload)
PJ_Write(i) ==
  /\ tasks[i].pc = "named"
  /\ shared_out' = WriteFile(shared_out, tasks[i].out_path, tasks[i].payload)
  /\ Step(i, [tasks[i] EXCEPT !.pc = "written"])
  /\ UNCHANGED <<extractVars, compareVars, mainVars, pathVars, plistVars, interpVars,
                 timingVars, shared_results, start_dirs, now>>

\* the comparison of the project: the record just written is loaded and
\* summarize_project applied to it and the ground truth
PJ_Summarize(i) ==
  /\ tasks[i].pc = "written"
  /\ LET gt == tasks[i].gt_payload
         cmp == shared_out[tasks[i].out_path]
     IN  \E tp_order \in Orderings(TpSet(gt, cmp)),
            fp_order \in Orderings(FpSet(gt, cmp)),
            fn_order \in Orderings(FnSet(gt, cmp)),
            t \in now..MaxClock :
           /\ Step(i, [tasks[i] EXCEPT
                         !.summary = summarize_project(gt, cmp, tp_order, fp_order,
                                                       fn_order, t),
                         !.pc = "summarized"])
           /\ now' = t
  /\ UNCHANGED <<extractVars, compareVars, mainVars, pathVars, plistVars, interpVars,
                 timingVars, shared_out, shared_results, start_dirs>>

\* write_detailed_json: os.path.exists(out_path) and the choice of the name
PJ_ChooseDetail(i) ==
  /\ tasks[i].pc = "summarized"
  /\ \E t \in now..MaxClock :
       /\ Step(i, [tasks[i] EXCEPT
                     !.detail_path = DetailName(shared_results, tasks[i].summary.project, t),
                     !.pc = "detail named"])
       /\ now' = t
  /\ UNCHANGED <<extractVars, compareVars, mainVars, pathVars, plistVars, interpVars,
                 timingVars, shared_out, shared_results, start_dirs>>

\* write_detailed_json: open(out_path, "w") and json.dump(summary)
PJ_WriteDetail(i) ==
  /\ tasks[i].pc = "detail named"
  /\ shared_results' = WriteFile(shared_results, tasks[i].detail_path, tasks[i].summary)
  /\ Step(i, [tasks[i] EXCEPT !.pc = "done"])
  /\ UNCHANGED <<extractVars, compareVars, mainVars, pathVars, plistVars, interpVars,
                 timingVars, shared_out, start_dirs, now>>

TaskNext ==
  \/ \E i \in DOMAIN tasks : PJ_Build(i)
  \/ \E i \in DOMAIN tasks : PJ_ChooseName(i)
  \/ \E i \in DOMAIN tasks : PJ_Write(i)
  \/ \E i \in DOMAIN tasks : PJ_Summarize(i)
  \/ \E i \in DOMAIN tasks : PJ_ChooseDetail(i)
  \/ \E i \in DOMAIN tasks : PJ_WriteDetail(i)

SpecTasks == TaskInit /\ [][TaskNext]_vars

\* ================================================================= claims
\* the findings of a record, counted and collected entry by entry
RECURSIVE NumFindings(_)
NumFindings(files_map) ==
  IF files_map = <<>> THEN 0 ELSE Len(Head(files_map)[2]) + NumFindings(Tail(files_map))

FindingKeys(files_map) ==
  UNION {{<<files_map[i][1], files_map[i][2][j].checker, files_map[i][2][j].line,
            files_map[i][2][j].message>> : j \in DOMAIN files_map[i][2]} :
         i \in DOMAIN files_map}

Compared == cpc \in {"summarized", "written"}

\* the printed precision and recall of the project's row of the csv file
RowPrecision == csv.lines[2][6]

RowRecall == csv.lines[2][7]

\* C1 (conservation): in every comparison, tp + fn is the number of findings
\* listed in the ground-truth record and tp + fp the number listed in the
\* candidate record.
C1_Conservation ==
  Compared =>
    /\ summary.summary.tp + summary.summary.fn = NumFindings(gt_payload.files)
    /\ summary.summary.tp + summary.summary.fp = NumFindings(cmp_payload.files)

C1_Witness ==
  /\ Compared
  /\ summary.summary.tp > 0
  /\ summary.summary.fp > 0
  /\ summary.summary.fn > 0

SameRecord == gt_payload.files = cmp_payload.files

\* C2 as stated (identity case): a record compared against itself yields
\* fp = fn = 0 and a row with precision = recall = 1.0.
C2_Original ==
  (cpc = "written" /\ SameRecord) =>
    /\ summary.summary.fp = 0
    /\ summary.summary.fn = 0
    /\ RowPrecision = 10000
    /\ RowRecall = 10000

\* C2 as amended (identity case): a record compared against itself yields
\* fp = fn = 0; the row's precision and recall are both 1.0 when the record
\* has at least one finding and both 0.0 when it has none.
C2_Identity ==
  (cpc = "written" /\ SameRecord) =>
    /\ summary.summary.fp = 0
    /\ summary.summary.fn = 0
    /\ NumFindings(gt_payload.files) > 0 => RowPrecision = 10000 /\ RowRecall = 10000
    /\ NumFindings(gt_payload.files) = 0 => RowPrecision = 0 /\ RowRecall = 0

C2_Witness ==
  /\ cpc = "written"
  /\ SameRecord
  /\ NumFindings(gt_payload.files) >= 2
  /\ RowPrecision = 10000

\* C3 (zero-denominator guard): write_csv_summary raises no error and prints
\* tp/(tp+fp) and tp/(tp+fn), or 0.0 where the denominator is 0, both in the
\* project's row and in the aggregate row; an empty candidate against a
\* non-empty ground truth gives precision = recall = 0.0.
C3_Guard ==
  cpc = "written" =>
    LET tp == summary.summary.tp
        fp == summary.summary.fp
        fn == summary.summary.fn
        guarded == <<IF tp + fp = 0 THEN 0 ELSE Fmt4(tp, tp + fp),
                     IF tp + fn = 0 THEN 0 ELSE Fmt4(tp, tp + fn)>>
    IN  /\ csv.raised = ""
        /\ Len(csv.lines) = 3
        /\ <<csv.lines[2][6], csv.lines[2][7]>> = guarded
        /\ csv.lines[3][1] = "all"
        /\ <<csv.lines[3][6], csv.lines[3][7]>> = guarded
        /\ (cmp_payload.files = <<>> /\ gt_payload.files # <<>>) => guarded = <<0, 0>>

Disjoint ==
  /\ gt_payload.files # <<>>
  /\ cmp_payload.files # <<>>
  /\ FindingKeys(gt_payload.files) \cap FindingKeys(cmp_payload.files) = {}

\* C4 (disjoint case): when both records are non-empty and share no finding
\* key, tp = 0, fp is the number of candidate findings, fn the number of
\* ground-truth findings, and the row's precision and recall are 0.0.
C4_Disjoint ==
  (Compared /\ Disjoint) =>
    /\ summary.summary.tp = 0
    /\ summary.summary.fp = NumFindings(cmp_payload.files)
    /\ summary.summary.fn = NumFindings(gt_payload.files)
    /\ cpc = "written" => RowPrecision = 0 /\ RowRecall = 0

C4_Witness ==
  /\ cpc = "written"
  /\ Disjoint
  /\ summary.summary.fp = 2
  /\ summary.summary.fn = 1

\* the keys behind the detail records of one kind, over all checkers
DetailKeys(kind) ==
  UNION {{<<d.file, d.checker, d.line, d.message>> :
            d \in Range(CASE kind = "tp" -> summary.by_checker[c].tp_details
                          [] kind = "fp" -> summary.by_checker[c].fp_details
                          [] kind = "fn" -> summary.by_checker[c].fn_details)} :
         c \in DOMAIN summary.by_checker}

\* two keys that differ in exactly one component
DifferInOne(g, c) == Cardinality({i \in 1..4 : g[i] # c[i]}) = 1

\* C5 (exact-match diffing): the TP keys are exactly the keys listed in both
\* records, the FP keys those listed only in the candidate, the FN keys those
\* listed only in the ground truth; findings that differ in a single key
\* component are never matched as a TP.
C5_ExactMatch ==
  Compared =>
    LET G == FindingKeys(gt_payload.files)
        C == FindingKeys(cmp_payload.files)
    IN  /\ DetailKeys("tp") = G \cap C
        /\ DetailKeys("fp") = C \ G
        /\ DetailKeys("fn") = G \ C
        /\ summary.summary.tp = Cardinality(G \cap C)
        /\ summary.summary.fp = Cardinality(C \ G)
        /\ summary.summary.fn = Cardinality(G \ C)
        /\ \A g \in G, c \in C :
             (DifferInOne(g, c) /\ g \notin C) => g \notin DetailKeys("tp")

C5_Witness ==
  /\ Compared
  /\ summary.summary.tp = 1
  /\ \E g \in FindingKeys(gt_payload.files), c \in FindingKeys(cmp_payload.files) :
       /\ g[3] = <<10>> /\ c[3] = <<11>>
       /\ DifferInOne(g, c)
       /\ g \in DetailKeys("fn")
       /\ c \in DetailKeys("fp")

RECURSIVE SumOver(_, _, _)
\* the sum of one count over a set of checkers
SumOver(by_checker, checkers, kind) ==
  IF checkers = {} THEN 0
  ELSE LET c == CHOOSE x \in checkers : TRUE
           n == CASE kind = "tp" -> by_checker[c].tp
                  [] kind = "fp" -> by_checker[c].fp
                  [] kind = "fn" -> by_checker[c].fn
       IN  n + SumOver(by_checker, checkers \ {c}, kind)

IsDetailOf(d, c, keys) ==
  /\ DOMAIN d = {"file", "checker", "line", "message"}
  /\ d.checker = c
  /\ <<d.file, d.checker, d.line, d.message>> \in keys

KeyLeak == <<"f.c", "checkerA", <<10>>, "leak">>

KeyUnused == <<"f.c", "checkerB", <<20>>, "unused">>

\* C6 (per-checker bucketing): for every checker c, by_checker[c] counts the
\* TP, FP and FN keys whose checker is c, each details list has as many
\* records as its count, and the counts summed over the checkers are the
\* summary; {leak by checkerA} against {leak by checkerA, unused by checkerB}
\* gives checkerA tp 1, fp 0, fn 0 and checkerB tp 0, fp 1, fn 0.
C6_Bucketing ==
  Compared =>
    LET G == FindingKeys(gt_payload.files)
        C == FindingKeys(cmp_payload.files)
        bc == summary.by_checker
        Of(keys, c) == {k \in keys : k[2] = c}
    IN  /\ DOMAIN bc = {k[2] : k \in G \cup C}
        /\ \A c \in DOMAIN bc :
             /\ bc[c].tp = Cardinality(Of(G \cap C, c))
             /\ bc[c].fp = Cardinality(Of(C \ G, c))
             /\ bc[c].fn = Cardinality(Of(G \ C, c))
             /\ Len(bc[c].tp_details) = bc[c].tp
             /\ Len(bc[c].fp_details) = bc[c].fp
             /\ Len(bc[c].fn_details) = bc[c].fn
             /\ \A i \in DOMAIN bc[c].tp_details : IsDetailOf(bc[c].tp_details[i], c, G \cap C)
             /\ \A i \in DOMAIN bc[c].fp_details : IsDetailOf(bc[c].fp_details[i], c, C \ G)
             /\ \A i \in DOMAIN bc[c].fn_details : IsDetailOf(bc[c].fn_details[i], c, G \ C)
        /\ SumOver(bc, DOMAIN bc, "tp") = summary.summary.tp
        /\ SumOver(bc, DOMAIN bc, "fp") = summary.summary.fp
        /\ SumOver(bc, DOMAIN bc, "fn") = summary.summary.fn
        /\ (G = {KeyLeak} /\ C = {KeyLeak, KeyUnused}) =>
             /\ <<bc["checkerA"].tp, bc["checkerA"].fp, bc["checkerA"].fn>> = <<1, 0, 0>>
             /\ <<bc["checkerB"].tp, bc["checkerB"].fp, bc["checkerB"].fn>> = <<0, 1, 0>>

C6_Witness ==
  /\ Compared
  /\ FindingKeys(gt_payload.files) = {KeyLeak}
  /\ FindingKeys(cmp_payload.files) = {KeyLeak, KeyUnused}
  /\ DOMAIN summary.by_checker = {"checkerA", "checkerB"}
  /\ summary.by_checker["checkerB"].fp = 1

\* C7 (missing project): when main processes a ground-truth record whose
\* project has no loaded candidate, it compares against an empty candidate;
\* the result and the row it emits have tp = 0, fp = 0 and fn = the number of
\* ground-truth findings, and the csv file carries the rows' counts.
C7_MissingProject ==
  /\ [][(/\ mpc = "run"
         /\ n_done' = n_done + 1
         /\ Len(rows') = Len(rows) + 1
         /\ gt_payload'.project \notin DOMAIN cmp_map)
        => LET n == NumFindings(gt_payload'.files)
               written == results_dir'[written_files'[Len(written_files')]]
           IN  /\ cmp_payload'.files = <<>>
               /\ written = summary'
               /\ written.summary = [tp |-> 0, fp |-> 0, fn |-> n]
               /\ SubSeq(rows'[Len(rows')], 1, 4) = <<gt_payload'.project, 0, 0, n>>]_vars
  /\ [](mpc = "crashed" \/ exit_code = Some(0) =>
          \A i \in DOMAIN rows : SubSeq(csv.lines[i + 1], 1, 4) = SubSeq(rows[i], 1, 4))

C7_Witness ==
  /\ mpc = "crashed"
  /\ rows # <<>>
  /\ gt_payload.project \notin DOMAIN cmp_map
  /\ cmp_payload = EmptyCandidate(gt_payload.project)
  /\ NumFindings(gt_payload.files) = 2
  /\ SubSeq(rows[Len(rows)], 1, 4) = <<gt_payload.project, 0, 0, 2>>
  /\ SubSeq(csv.lines[Len(rows) + 1], 1, 4) = <<gt_payload.project, 0, 0, 2>>

RECURSIVE FlatEntries(_, _)
\* the entries of one file over all documents, in document-processing order
FlatEntries(reports_list, f) ==
  IF reports_list = <<>> THEN <<>>
  ELSE DictGet(Head(reports_list), f) \o FlatEntries(Tail(reports_list), f)

FirstIndex(seq, e) == CHOOSE i \in DOMAIN seq : seq[i] = e /\ \A j \in 1..i - 1 : seq[j] # e

InputKeys == UNION {FindingKeys(all_reports[i]) : i \in DOMAIN all_reports}

\* C8 (idempotent merge): merging a reports list followed by itself, or one
\* document twice, gives the same findings-by-file mapping, per-file order
\* included, as merging it once.
C8_Idempotent ==
  xpc = "merged" =>
    /\ AsMapping(merge_reports(all_reports \o all_reports)) = AsMapping(merged)
    /\ \A i \in DOMAIN all_reports :
         AsMapping(merge_reports(<<all_reports[i], all_reports[i]>>))
           = AsMapping(merge_reports(<<all_reports[i]>>))

C8_Witness ==
  /\ xpc = "merged"
  /\ Len(all_reports) = 2
  /\ all_reports[1] # all_reports[2]
  /\ NumFindings(all_reports[1]) = 2
  /\ NumFindings(merged) = 3

\* C9 (first occurrences, in order): the merged mapping holds every input key
\* exactly once; each per-file sequence lists the file's distinct findings in
\* the order of their first occurrence in document-processing order.
C9_FirstOccurrences ==
  xpc = "merged" =>
    /\ Cardinality(DictKeys(merged)) = Len(merged)
    /\ DictKeys(merged) = UNION {DictKeys(all_reports[i]) : i \in DOMAIN all_reports}
    /\ FindingKeys(merged) = InputKeys
    /\ NumFindings(merged) = Cardinality(InputKeys)
    /\ \A f \in DictKeys(merged) :
         LET out == DictGet(merged, f)
             flat == FlatEntries(all_reports, f)
         IN  /\ Range(out) = Range(flat)
             /\ \A i, j \in DOMAIN out :
                  i < j => FirstIndex(flat, out[i]) < FirstIndex(flat, out[j])

C9_Witness ==
  /\ xpc = "merged"
  /\ Len(all_reports) = 2
  /\ \E f \in DictKeys(merged) :
       /\ Len(DictGet(merged, f)) = 2
       /\ Len(FlatEntries(all_reports, f)) = 4
       /\ DictGet(all_reports[2], f) = <<DictGet(merged, f)[2], DictGet(merged, f)[1]>>

\* the first non-empty metadata of a sequence, the empty one if there is none
FirstNonEmpty(metas) ==
  IF \E i \in DOMAIN metas : metas[i] # EmptyMeta
  THEN metas[CHOOSE i \in DOMAIN metas :
               metas[i] # EmptyMeta /\ \A j \in 1..i - 1 : metas[j] = EmptyMeta]
  ELSE EmptyMeta

\* C10 (first-wins embedded metadata): at every point of the loop, and in the
\* record written, the embedded metadata is the metadata of the first
\* document whose metadata is non-empty, and empty only if all are empty.
C10_FirstWins ==
  /\ plist_metadata = FirstNonEmpty(metas_read)
  /\ xpc = "done" => out_dir[out_path].metadata.plist_metadata = FirstNonEmpty(metas_read)

C10_Witness ==
  /\ xpc = "done"
  /\ Len(metas_read) = 2
  /\ metas_read[1] # EmptyMeta
  /\ metas_read[2] # EmptyMeta
  /\ metas_read[1] # metas_read[2]
  /\ out_dir[out_path].metadata.plist_metadata = metas_read[1]

\* ---------------------------------------------------------------- C11-C14
\* a relative path in the form the normaliser hands out: forward slashes
\* only, no empty, "." or ".." segment
CleanRelative(path) ==
  /\ path # <<>>
  /\ \A i \in DOMAIN path : path[i] # "\\"
  /\ \A i \in DOMAIN split(path) : split(path)[i] \notin {<<>>, <<".">>, DotDot}

\* C11 (path normalization stability): a path that is already relative and
\* inside the project root is returned unchanged, whatever the working
\* directory and whether or not it contains the root's basename.
C11_Stable ==
  npc = "returned" /\ raw_root # <<>> /\ CleanRelative(raw_path)
    => normalized.path = raw_path

\* both arguments can be made absolute
Resolvable ==
  abspath(raw_path, workdir).raised = "" /\ abspath(raw_root, workdir).raised = ""

\* raw_path relative to the root
RootRelative ==
  relpath(abspath(raw_path, workdir).comps, abspath(raw_root, workdir).comps)

\* the raw path lies inside the root: the root's components lead its own
InsideRoot ==
  LET root_comps == abspath(raw_root, workdir).comps
      path_comps == abspath(raw_path, workdir).comps
  IN  /\ Len(root_comps) <= Len(path_comps)
      /\ SubSeq(path_comps, 1, Len(root_comps)) = root_comps

\* a path whose first segment is ".."
BeginsWithParentSegment(path) == split(path)[1] = DotDot

\* C12 (strategy 1): the root-relative form of raw_path is returned by the
\* first strategy exactly when it does not begin with a parent-directory
\* segment and is not absolute; a raw path inside the root is returned as its
\* root-relative form, and a path outside the root never by strategy 1.
C12_Strategy1 ==
  npc = "returned" /\ raw_root # <<>> /\ Resolvable
    => /\ normalized.via = 1
            <=> ~BeginsWithParentSegment(RootRelative) /\ ~isabs(RootRelative)
       /\ normalized.via = 1 => normalized.path = replace(RootRelative)
       /\ InsideRoot => normalized.path = replace(RootRelative)
       /\ ~InsideRoot => normalized.via # 1

\* the final segment of the project root
RootName == BaseName(normpath(split(raw_root), <<>>))

\* sub occurs in s at the 0-based index i
OccursAt(s, sub, i) ==
  /\ i >= 0
  /\ i + Len(sub) <= Len(s)
  /\ \A k \in 1..Len(sub) : s[i + k] = sub[k]

Occurrences(s, sub) == {i \in 0..Len(s) : OccursAt(s, sub, i)}

\* what follows the rightmost occurrence of sub in s, leading separators and
\* backslashes trimmed
AfterRightmost(s, sub) ==
  LET i == CHOOSE k \in Occurrences(s, sub) : \A j \in Occurrences(s, sub) : j <= k
  IN  lstrip(SubSeq(s, i + Len(sub) + 1, Len(s)))

\* C13 as stated (strategies 2 and 3): when strategy 1 does not accept, the
\* text after the rightmost occurrence of the root's basename in raw_path is
\* returned whenever the basename occurs, and raw_path with its separators
\* normalised only when the basename does not occur.
C13_Original ==
  npc = "returned" /\ raw_root # <<>> /\ normalized.via # 1
    => IF Occurrences(raw_path, RootName) # {}
       THEN normalized.path = replace(AfterRightmost(raw_path, RootName))
       ELSE normalized.path = replace(raw_path)

\* C13 (strategies 2 and 3): when strategy 1 does not accept, the text after
\* the rightmost occurrence of the root's basename in raw_path, trimmed of
\* leading separators and with separators normalised, is returned if the
\* basename can be determined, occurs, and that text is not empty; in every
\* other case raw_path is returned with its separators normalised.
C13_Fallbacks ==
  npc = "returned" /\ raw_root # <<>> /\ normalized.via # 1
    => IF /\ abspath(raw_root, workdir).raised = ""
          /\ Occurrences(raw_path, RootName) # {}
          /\ AfterRightmost(raw_path, RootName) # <<>>
       THEN normalized.via = 2
              /\ normalized.path = replace(AfterRightmost(raw_path, RootName))
       ELSE normalized.via = 3 /\ normalized.path = replace(raw_path)

C13_Witness ==
  /\ npc = "returned"
  /\ normalized.via = 2
  /\ RootName # <<>>
  /\ Cardinality(Occurrences(raw_path, RootName)) = 2
  /\ normalized.path = <<"a">>

PathChars == UNION {Range(piece) : piece \in PathTokens}

\* C14 (the normaliser is total): every call returns a path and propagates
\* no exception; when strategy 1 fails the result is that of strategies 2
\* and 3, and when strategy 2 fails as well it is raw_path with its
\* separators normalised.
C14_Total ==
  npc = "returned"
    => /\ normalized.raised = ""
       /\ normalized.path \in Seq(PathChars)
       /\ raw_root # <<>> /\ Strategy1(raw_path, raw_root, workdir).outcome = "raise"
            => /\ normalized.via \in {2, 3}
               /\ normalized.via = 2
                    => normalized.path = Strategy2(raw_path, raw_root, workdir).value
       /\ raw_root # <<>> /\ normalized.via # 1
            /\ Strategy2(raw_path, raw_root, workdir).outcome = "raise"
            => normalized.via = 3 /\ normalized.path = replace(raw_path)

C14_Witness ==
  /\ npc = "returned"
  /\ Strategy1(raw_path, raw_root, workdir).outcome = "raise"
  /\ Strategy2(raw_path, raw_root, workdir).outcome = "raise"
  /\ normalized.via = 3
  /\ Occurrences(raw_path, RootName) # {}
  /\ normalized.path = raw_path

\* -------------------------------------------------------------------- C15
\* C15 (detail write never overwrites): no call of write_detailed_json
\* writes to a name its directory already held, so every earlier detail file
\* keeps its content; when the project's canonical name is taken the call
\* writes to the timestamped name.
C15_NeverOverwrites ==
  [][written_files' # written_files
       => LET name == written_files'[Len(written_files')]
          IN  /\ name \notin DOMAIN results_dir
              /\ \A n \in DOMAIN results_dir : results_dir'[n] = results_dir[n]
              /\ FileName(name[1], None) \in DOMAIN results_dir => name[2] # None]_vars

\* -------------------------------------------------------------------- C16
\* C16 (intermediate records are persisted immutably): no write of a
\* record-building invocation goes to a name the output directory already
\* held, so no persisted record is overwritten or rewritten; when the
\* project's canonical name is taken the write goes to the timestamped name.
C16_Immutable ==
  [][out_writes' # out_writes
       => LET name == out_writes'[Len(out_writes')]
          IN  /\ name \notin DOMAIN out_dir
              /\ \A n \in DOMAIN out_dir : out_dir'[n] = out_dir[n]
              /\ FileName(name[1], None) \in DOMAIN out_dir => name[2] # None]_vars

\* -------------------------------------------------------------------- C17
RECURSIVE RowTotal(_, _)
\* the sum of one column over the rows
RowTotal(rs, col) ==
  IF rs = <<>> THEN 0 ELSE rs[Len(rs)][col] + RowTotal(SubSeq(rs, 1, Len(rs) - 1), col)

\* C17 (aggregate summary): write_csv_summary returns normally and the table
\* is the header, one row per input row in input order, and one final row
\* "all" carrying the sums of tp, fp and fn and the precision and recall
\* computed from those sums.
C17_Aggregate ==
  mpc = "crashed" \/ exit_code = Some(0)
    => /\ csv.raised = ""
       /\ Len(csv.lines) = Len(rows) + 2
       /\ csv.lines[1] = CsvHeader
       /\ \A i \in DOMAIN rows :
            /\ SubSeq(csv.lines[i + 1], 1, 4) = SubSeq(rows[i], 1, 4)
            /\ csv.lines[i + 1][1] # "all"
       /\ LET last == csv.lines[Len(csv.lines)]
              ttp == RowTotal(rows, 2)
              tfp == RowTotal(rows, 3)
              tfn == RowTotal(rows, 4)
          IN  /\ SubSeq(last, 1, 4) = <<"all", ttp, tfp, tfn>>
              /\ last[6] = (IF ttp + tfp = 0 THEN 0 ELSE Fmt4(ttp, ttp + tfp))
              /\ last[7] = (IF ttp + tfn = 0 THEN 0 ELSE Fmt4(ttp, ttp + tfn))

\* -------------------------------------------------------------------- C18
\* the timing attached to the candidate record
CandidateTiming == PayloadTiming(cmp_payload)

\* the timing has a value under key that is neither missing, zero nor empty
HasTime(key) ==
  /\ CandidateTiming # NoTiming
  /\ key \in DOMAIN CandidateTiming[1]
  /\ CandidateTiming[1][key] # None
  /\ CandidateTiming[1][key] # Num(0)
  /\ CandidateTiming[1][key] # Txt(None)

\* that value as a time: a number rendered, a text as it is
TimeOf(key) ==
  LET v == CandidateTiming[1][key]
  IN  IF v[1] = "num" THEN <<"iso", v[2]>> ELSE v[2]

\* C18 as stated (analysis_time fallback order): the analysis_time of the
\* project's row comes from the timing attached to the candidate record
\* whenever the record carries timing, and is the comparison's generated_at
\* otherwise.
C18_Original ==
  cpc = "written"
    => IF CandidateTiming # NoTiming
       THEN \E key \in {"end_timestamp", "start_timestamp"} :
              HasTime(key) /\ rows[1][5] = TimeOf(key)
       ELSE rows[1][5] = summary.generated_at

\* C18 (analysis_time fallback order): the analysis_time of the project's
\* row is the end timestamp of the timing attached to the candidate record if
\* the timing has one, else its start timestamp if it has one, else the
\* comparison's generated_at; that is the time printed in the row, so the
\* current time is not used while an earlier source is available.
C18_Fallback ==
  cpc = "written"
    => /\ rows[1][5] = (IF HasTime("end_timestamp") THEN TimeOf("end_timestamp")
                        ELSE IF HasTime("start_timestamp") THEN TimeOf("start_timestamp")
                        ELSE summary.generated_at)
       /\ csv.lines[2][5] = rows[1][5]

C18_Witness ==
  /\ cpc = "written"
  /\ CandidateTiming # NoTiming
  /\ ~HasTime("end_timestamp")
  /\ ~HasTime("start_timestamp")
  /\ rows[1][5] = summary.generated_at
  /\ rows[1][5] # <<"iso", now>>

\* -------------------------------------------------------------------- C19
RECURSIVE Loaded(_, _)
\* the items of a sequence that belong to the documents plistlib loaded
Loaded(items, flags) ==
  IF items = <<>> THEN <<>>
  ELSE IF Head(flags) THEN <<Head(items)>> \o Loaded(Tail(items), Tail(flags))
  ELSE Loaded(Tail(items), Tail(flags))

C20_NoInput ==
  /\ xpc # "idle" /\ n_plists = 0
       => /\ xpc \in {"loop", "error", "exit"}
          /\ out_writes = <<>>
          /\ out_path = None
          /\ out_dir \in OutDirs
          /\ xpc = "exit" => exit_code = Some(2)
  /\ mpc # "idle" /\ (n_gt = 0 \/ n_cmp = 0)
       => /\ n_loaded = 0
          /\ n_done = 0
          /\ written_files = <<>>
          /\ rows = <<>>
          /\ csv = None
          /\ results_dir \in ResultsDirs
          /\ mpc # "crashed"
          /\ mpc = "exit" => exit_code = Some(2)

C20_Witness ==
  /\ mpc = "exit"
  /\ n_gt > 0
  /\ n_cmp = 0
  /\ exit_code = Some(2)
  /\ results_dir = EmptyDir

Permute(items, order) == [i \in DOMAIN items |-> items[order[i]]]

\* C22 (deterministic record building): the record generate_intermediate
\* returns is the one it returns in a run that is handed the same documents
\* in any other enumeration order: same project, same file keys with the
\* same findings in the same per-file order, same embedded metadata.
C22_Deterministic ==
  xpc = "done" =>
    \A order \in Orderings(1..n_plists) :
      LET other_files == merge_reports(Permute(all_reports, order))
          other_meta == FirstNonEmpty(Permute(metas_read, order))
          written == out_dir[out_path]
      IN  /\ written.project = Or(project_name, Or(ReportDirName, "unknown"))
          /\ AsMapping(written.files) = AsMapping(other_files)
          /\ written.metadata.plist_metadata = other_meta

\* -------------------------------------------------------------------- C24
\* the characters of the paths and of the project root of the documents
PathOf(fp) ==
  CASE fp = "f.c" -> <<"f", ".", "c">>
    [] fp = "g.c" -> <<"g", ".", "c">>
    [] fp = "<unknown>" -> <<"<", "u", "n", "k", "n", "o", "w", "n", ">">>
    [] fp = "/src/proj" -> <<"/", "s", "r", "c", "/", "p", "r", "o", "j">>

RECURSIVE EntriesUnder(_, _, _, _)
\* the findings of the raw paths that normalize to key, in discovery order
EntriesUnder(files, key, root, cwd) ==
  IF files = <<>> THEN <<>>
  ELSE (IF make_relative_path(PathOf(files[1][1]), root, cwd).path = key
        THEN files[1][2] ELSE <<>>) \o EntriesUnder(Tail(files), key, root, cwd)

RECURSIVE FirstOfEach(_)
\* a sequence without the repetitions of its earlier items
FirstOfEach(entries) ==
  IF entries = <<>> THEN <<>>
  ELSE LET front == FirstOfEach(SubSeq(entries, 1, Len(entries) - 1))
           last == entries[Len(entries)]
       IN  IF \E i \in DOMAIN front : front[i] = last THEN front
           ELSE Append(front, last)

\* C24 (record building with a project root): with a project root and at
\* least one finding, generate_intermediate completes, and in the record it
\* returns the file keys are the normalizer's results for the raw paths,
\* each key holds the findings of the raw paths that normalize to it in
\* discovery order, and no key holds a finding (checker, line, message)
\* twice.
C24_RootedRecord ==
  [][xpc = "loop" /\ xpc' # "loop" /\ project_root # "" /\ merged' # <<>>
       => /\ xpc' = "done"
          /\ LET files == out_dir'[out_path'].files
                 root == PathOf(project_root)
             IN  \E cwd \in {Some(root), Some(<<"/">>)} :
                   /\ {PathOf(k) : k \in DictKeys(files)}
                        = {make_relative_path(PathOf(r), root, cwd).path :
                             r \in DictKeys(merged')}
                   /\ \A k \in DictKeys(files) :
                        /\ DictGet(files, k)
                             = FirstOfEach(EntriesUnder(merged', PathOf(k), root, cwd))
                        /\ \A i, j \in DOMAIN DictGet(files, k) :
                             DictGet(files, k)[i] = DictGet(files, k)[j] => i = j]_vars

\* -------------------------------------------------------------------- C25
\* the file index of a diagnostic is an index into the files array
ValidIndex(files, diag) ==
  diag.file # None /\ 0 <= diag.file[1] /\ diag.file[1] < Len(files)

\* the path the claim files a diagnostic under; a valid index decides when
\* `decides`
PathByRule(files, diag, decides) ==
  IF ValidIndex(files, diag) /\ decides THEN files[diag.file[1] + 1]
  ELSE IF diag.file_path # "" THEN diag.file_path
  ELSE IF diag.path # "" THEN diag.path
  ELSE "<unknown>"

FieldByRule(preferred, secondary) ==
  IF preferred # "" THEN preferred ELSE IF secondary # "" THEN secondary ELSE ""

RECURSIVE FindingsUnder(_, _, _)
\* the findings the diagnostics filed under a path yield, in document order
FindingsUnder(diagnostics, paths, fp) ==
  IF diagnostics = <<>> THEN <<>>
  ELSE LET d == Head(diagnostics)
       IN  (IF Head(paths) = fp
            THEN <<[checker |-> FieldByRule(d.check_name, d.category),
                    message |-> FieldByRule(d.description, d.message),
                    line |-> d.line]>>
            ELSE <<>>) \o FindingsUnder(Tail(diagnostics), Tail(paths), fp)

\* the mapping returned for a readable document holds one finding per
\* diagnostic, each under paths[i]
FiledUnder(paths) ==
  LET reports == plist_result[1]
      diagnostics == plist_doc.diagnostics
  IN  /\ NumFindings(reports) = Len(diagnostics)
      /\ DictKeys(reports) = Range(paths)
      /\ \A fp \in DictKeys(reports) :
           DictGet(reports, fp) = FindingsUnder(diagnostics, paths, fp)

\* C25 as stated: a valid file index always decides the path.
C25_Original ==
  ppc = "returned" /\ plist_doc.readable =>
    FiledUnder([i \in DOMAIN plist_doc.diagnostics |->
                  PathByRule(plist_doc.files, plist_doc.diagnostics[i], TRUE)])

\* C25 (diagnostic file resolution): every diagnostic of a readable document
\* yields exactly one finding, filed under files[index] when the file index
\* is a valid index into the files array and the name there is not empty,
\* otherwise under the diagnostic's direct path field (file_path, then path)
\* when present, otherwise under "<unknown>"; checker and message are the
\* preferred field, else the secondary field, else the empty string.
C25_Resolution ==
  ppc = "returned" /\ plist_doc.readable =>
    FiledUnder([i \in DOMAIN plist_doc.diagnostics |->
                  LET d == plist_doc.diagnostics[i]
                  IN  PathByRule(plist_doc.files, d,
                                 ValidIndex(plist_doc.files, d)
                                   => plist_doc.files[d.file[1] + 1] # "")])

\* a valid index of an empty name beside a direct path, a valid index of a
\* name, and no path at all
C25_Witness ==
  /\ ppc = "returned"
  /\ plist_doc.readable
  /\ plist_doc.files = <<"", "g.c">>
  /\ Len(plist_doc.diagnostics) = 2
  /\ plist_doc.diagnostics[1].file = Some(0)
  /\ plist_doc.diagnostics[1].file_path = "x.c"
  /\ plist_doc.diagnostics[2].file \in {Some(1), Some(2)}
  /\ DictKeys(plist_result[1]) \in {{"x.c", "g.c"}, {"x.c", "<unknown>"}}

\* -------------------------------------------------------------------- C28
RECURSIVE BeginEndPairs(_)
RECURSIVE BeginEndPairsOf(_)
BeginEndPairsOf(items) ==
  IF items = <<>> THEN <<>>
  ELSE BeginEndPairs(Head(items)) \o BeginEndPairsOf(Tail(items))

\* the (begin, end) of every mapping of a payload that has both, under its
\* timestamps key or directly, in document order
BeginEndPairs(v) ==
  IF IsDict(v)
  THEN LET t == JGet(v, "timestamps")
           own == IF IsDict(t) /\ HasKey(t, "begin") /\ HasKey(t, "end")
                  THEN <<<<JGet(t, "begin"), JGet(t, "end")>>>>
                  ELSE IF HasKey(v, "begin") /\ HasKey(v, "end")
                  THEN <<<<JGet(v, "begin"), JGet(v, "end")>>>>
                  ELSE <<>>
       IN  own \o BeginEndPairsOf([i \in DOMAIN v[2] |-> v[2][i][2]])
  ELSE IF IsList(v) THEN BeginEndPairsOf(v[2])
  ELSE <<>>

RECURSIVE ElapsedFields(_, _)
RECURSIVE ElapsedFieldsOf(_, _)
ElapsedFieldsOf(items, inside) ==
  IF items = <<>> THEN <<>>
  ELSE ElapsedFields(Head(items), inside) \o ElapsedFieldsOf(Tail(items), inside)

\* the elapsed_seconds values of a payload in document order; with ~inside,
\* those of mappings that lie in no mapping having the key
ElapsedFields(v, inside) ==
  IF IsDict(v)
  THEN LET own == IF HasKey(v, "elapsed_seconds")
                  THEN <<JGet(v, "elapsed_seconds")>> ELSE <<>>
       IN  IF own # <<>> /\ ~inside THEN own
           ELSE own \o ElapsedFieldsOf([i \in DOMAIN v[2] |-> v[2][i][2]], inside)
  ELSE IF IsList(v) THEN ElapsedFieldsOf(v[2], inside)
  ELSE <<>>

\* the items of a sequence that are not None
NotNone(items) == SelectSeq(items, LAMBDA x : x # None)

Converts(v) == Float(v).outcome = "return"

\* a value read as a number where float() gives one
AsNumber(v) == IF Converts(v) THEN Float(v).value ELSE v

Difference(e, b) ==
  IF Converts(e) /\ Converts(b) THEN Num(AsNumber(e)[2] - AsNumber(b)[2]) ELSE None

\* the three interpretations, each for the payloads it applies to
Interpreted(direct, nested, alone) ==
  LET data == meta_file.data
      pairs == BeginEndPairs(data)
  IN  IF IsDict(data) /\ HasKey(data, "elapsed_seconds") THEN direct
      ELSE IF pairs # <<>> /\ nested THEN
             interpretation
               = Returned(Some([start_timestamp |-> AsNumber(pairs[1][1]),
                                end_timestamp |-> AsNumber(pairs[1][2]),
                                elapsed_seconds |-> Difference(pairs[1][2], pairs[1][1])]))
      ELSE alone

\* C28 as stated: the direct field is returned whatever it holds, a mapping
\* with begin and end always gives start, end and their difference, and the
\* nested field is any elapsed_seconds field of the payload.
C28_Original ==
  ipc = "done" /\ meta_file.parses =>
    LET data == meta_file.data
        fields == ElapsedFields(data, TRUE)
    IN  Interpreted(
          interpretation
            = Returned(Some([start_timestamp |-> JGet(data, "start_timestamp"),
                             end_timestamp |-> JGet(data, "end_timestamp"),
                             elapsed_seconds |-> AsNumber(JGet(data, "elapsed_seconds"))])),
          TRUE,
          IF fields # <<>>
          THEN \E i \in DOMAIN fields :
                 interpretation = Returned(Some([elapsed_seconds |-> AsNumber(fields[i])]))
          ELSE interpretation.outcome # "return")

\* C28 (timing interpretation priority): for a candidate that parses, (1) a
\* payload that is a mapping with an elapsed_seconds key gives that field as
\* a number, or None when it is null, with the payload's start_timestamp and
\* end_timestamp as they are, and nothing when the field does not convert;
\* (2) else the first mapping in document order having begin and end, under
\* its timestamps key or directly, gives start = begin, end = end and elapsed
\* = end - begin when both convert to numbers; (3) else, and when they do not
\* convert, the first elapsed_seconds value that is not null, looked for in
\* document order outside the mappings having the key, is returned alone
\* when it converts; otherwise the candidate gives nothing.
C28_Priority ==
  ipc = "done" /\ meta_file.parses =>
    LET data == meta_file.data
        pairs == BeginEndPairs(data)
        fields == NotNone(ElapsedFields(data, FALSE))
        ev == JGet(data, "elapsed_seconds")
    IN  Interpreted(
          IF ev = None \/ Converts(ev)
          THEN interpretation
                 = Returned(Some([start_timestamp |-> JGet(data, "start_timestamp"),
                                  end_timestamp |-> JGet(data, "end_timestamp"),
                                  elapsed_seconds |-> AsNumber(ev)]))
          ELSE interpretation.outcome # "return",
          Converts(pairs[1][1]) /\ Converts(pairs[1][2]),
          IF fields # <<>> /\ Converts(fields[1])
          THEN interpretation = Returned(Some([elapsed_seconds |-> AsNumber(fields[1])]))
          ELSE interpretation.outcome # "return")

\* a begin that is no number beside a nested elapsed_seconds: the third
\* interpretation is returned
C28_Witness ==
  /\ ipc = "done"
  /\ meta_file.parses
  /\ IsDict(meta_file.data)
  /\ ~HasKey(meta_file.data, "elapsed_seconds")
  /\ NotNone(ElapsedFields(meta_file.data, FALSE)) # <<>>
  /\ BeginEndPairs(meta_file.data) # <<>>
  /\ BeginEndPairs(meta_file.data)[1][1] = Txt("soon")
  /\ interpretation = Returned(Some([elapsed_seconds |-> Num(9)]))

\* ---------------------------------------------------------------- C26-C29
\* the paths of the candidates the loop did not skip, in the order tried
TriedPaths == [i \in DOMAIN tried |-> tried[i].path]

\* both metadata files of every directory of report_dir
ChildFiles ==
  {report_dir \o c \o <<name>> :
     c \in ChildDirs(subdirs, <<>>), name \in {AnalysisTime, MetadataJson}}

\* the candidates in the order of the claim, the files of the child
\* directories in the order child_files
ClaimedOrder(child_files) ==
  <<report_dir \o <<AnalysisTime>>, report_dir \o <<MetadataJson>>>>
    \o child_files
    \o Walk(report_dir, subdirs, meta_exists, listing, <<>>)
    \o ParentCandidates(report_dir, ParentLevels)

\* C26 (timing candidate order): the candidates are tried in the order
\* analysis_time.json of report_dir, metadata.json of report_dir, both files
\* of every directory of report_dir, the files the walk finds, the files of
\* the two parent directories; every path is tried once, where it is first
\* met, and all of them are tried when none gives a timing.
C26_CandidateOrder ==
  tpc \in {"loop", "returned"} =>
    \E child_files \in Orderings(ChildFiles) :
      LET claimed == FirstOfEach(ClaimedOrder(child_files))
      IN  /\ Len(tried) <= Len(claimed)
          /\ TriedPaths = SubSeq(claimed, 1, Len(tried))
          /\ tpc = "returned" /\ timing_meta = NoTiming => Len(tried) = Len(claimed)

\* the directory levels between report_dir and a file below it, -1 for a
\* file that is not below report_dir
LevelsBelow(path) ==
  IF Len(path) > Len(report_dir) /\ SubSeq(path, 1, Len(report_dir)) = report_dir
  THEN Len(path) - Len(report_dir) - 1
  ELSE -1

\* C27 (timing walk depth bound): every candidate below report_dir lies at
\* most two directory levels below it, and no timing is read from a file
\* three or more levels below.
C27_WalkDepth ==
  /\ \A i \in DOMAIN candidates : LevelsBelow(candidates[i]) <= 2
  /\ \A i \in DOMAIN tried : LevelsBelow(tried[i].path) <= 2

\* the candidate tried as i-th is a file that gives a timing
Yields(i) == tried[i].present /\ ReadCandidate(tried[i].file).outcome = "return"

\* C29 (first candidate wins, no timing is no error): the resolver never
\* raises; the candidates are gone through in the order of the list, each
\* path once; a candidate that is no file, cannot be read or parsed, or gives
\* no interpretation is passed over; the call returns the interpretation of
\* the first candidate that gives one, and the empty value when the whole
\* list gave none.
C29_FirstWins ==
  /\ tpc # "raised"
  /\ tpc \in {"loop", "returned"} =>
       /\ TriedPaths = FirstOfEach(SubSeq(candidates, 1, n_tried))
       /\ \A i \in 1..Len(tried) - 1 : ~Yields(i)
  /\ tpc = "loop" => \A i \in DOMAIN tried : ~Yields(i)
  /\ tpc = "returned" =>
       IF \E i \in DOMAIN tried : Yields(i)
       THEN timing_meta = ReadCandidate(tried[Len(tried)].file).value
       ELSE timing_meta = NoTiming /\ n_tried = Len(candidates)

\* a file that does not parse and a missing one were passed over, the next
\* file gave the timing, and a further file was never read
C29_Witness ==
  /\ tpc = "returned"
  /\ timing_meta # NoTiming
  /\ \E i, j \in 1..Len(tried) - 1 :
       /\ tried[i].present /\ ~tried[i].file.parses
       /\ ~tried[j].present
  /\ \E p \in meta_exists : p \notin seen

AllDone == \A i \in DOMAIN tasks : tasks[i].pc = "done"

\* the record of project i, built from its own reports alone at the clock
\* reading the invocation took
RecordOf(i) ==
  Payload(ProjectOf(i), merge_reports(tasks[i].all_reports),
          tasks[i].payload.metadata.extracted_at, Len(tasks[i].all_reports), EmptyMeta,
          NoTiming)

\* the clock reading a chosen name holds, 0 (which the clock never shows)
\* when it holds none
StampOf(name) == IF name[2] = None THEN 0 ELSE name[2][1]

RECURSIVE RecordsAfter(_, _)
\* the output directory after the projects of `order` were built one after
\* the other, each taking the clock reading it took in this run
RecordsAfter(dir, order) ==
  IF order = <<>> THEN dir
  ELSE LET i == Head(order)
           name == IF FileName(ProjectOf(i), None) \in DOMAIN dir
                   THEN FileName(ProjectOf(i), Some(StampOf(tasks[i].out_path)))
                   ELSE FileName(ProjectOf(i), None)
       IN  RecordsAfter(WriteFile(dir, name, RecordOf(i)), Tail(order))

\* whether s is a summary of the two records
IsSummaryOf(s, gt, cmp) ==
  \E tp_order \in Orderings(TpSet(gt, cmp)), fp_order \in Orderings(FpSet(gt, cmp)),
     fn_order \in Orderings(FnSet(gt, cmp)), t \in 1..MaxClock :
    s = summarize_project(gt, cmp, tp_order, fp_order, fn_order, t)

RECURSIVE ResultsAfter(_, _)
\* the results directory after the projects of `order` were compared one
\* after the other
ResultsAfter(dir, order) ==
  IF order = <<>> THEN dir
  ELSE LET i == Head(order)
           name == DetailName(dir, ProjectOf(i), StampOf(tasks[i].detail_path))
       IN  ResultsAfter(WriteFile(dir, name, tasks[i].summary), Tail(order))

\* C23: when two projects with different names are merged, built and
\* compared side by side, then whatever the interleaving of their steps the
\* output directory and the results directory end as they would had the
\* projects been run one after the other, in either order, and the summary of
\* each project is a summary of its own ground truth and its own record.
C23_Independent ==
  AllDone =>
    /\ \A order \in Orderings(DOMAIN tasks) :
         /\ shared_out = RecordsAfter(start_dirs[1], order)
         /\ shared_results = ResultsAfter(start_dirs[2], order)
    /\ \A i \in DOMAIN tasks :
         IsSummaryOf(tasks[i].summary, tasks[i].gt_payload, RecordOf(i))

\* the two invocations overlapped, p1 found p1.json and p1.comparison.json in
\* place and took other names, and each project's record holds findings
C23_Witness ==
  /\ AllDone
  /\ overlapped
  /\ tasks[1].out_path[2] # None
  /\ tasks[1].detail_path[2] # None
  /\ NumFindings(shared_out[tasks[1].out_path].files) = 2
  /\ NumFindings(shared_out[tasks[2].out_path].files) = 1
  /\ tasks[1].summary.summary.tp = 1
  /\ tasks[2].summary.summary.fp = 1

====
